---- MODULE Spec2Model ----
(***************************************************************************)
(* Smartflo <-> Gemini Live voice bridge (src/project).                    *)
(*                                                                         *)
(* The model follows the asyncio program: the endpoint coroutine           *)
(* (server.py), the stream task running StreamingOrchestrator.start(),     *)
(* its three tasks, the telephony session and the model client.  Every     *)
(* method is a state transformer over the record World (the objects'       *)
(* fields and the two sockets); an action applies the transformers of one  *)
(* scheduler step, i.e. the code between two suspension points.            *)
(***************************************************************************)
EXTENDS Integers, Sequences, FiniteSets, TLC

VARIABLES
    smartflo_session,   \* SmartfloAudioSession fields
    websocket,          \* the telephony socket (FastAPI WebSocket)
    gemini_client,      \* GeminiLiveClient fields
    ws,                 \* the model socket (websockets client connection)
    orch,               \* StreamingOrchestrator fields
    pc,                 \* position of each coroutine / task
    cancel,             \* tasks with a CancelledError pending delivery
    stops,              \* the (at most two) executions of stop(): position
    hist                \* observations of the run (never read by the program)

vars == <<smartflo_session, websocket, gemini_client, ws, orch, pc, cancel, stops, hist>>

-----------------------------------------------------------------------------
(* Bounds of the exploration *)

MaxFrameLen == 161      \* longest frame handed to send_audio
MaxChunks == 1          \* media frames / audio parts per direction in a call
MaxSends == 2           \* frames written by send_audio when the session is driven alone
MaxFwd == 2             \* audio frames per direction when the two read loops are observed
MaxPcmLen == 4          \* longest byte string handed to a conversion on its own

(* Program constants *)

FrameSize == 160        \* session.py:152  len(ulaw_data) % 160
SilenceByte == 255      \* session.py:154  b'\xff'

None == "<None>"

Falsy(x) == x \in {None, ""}        \* Python truth value of an Optional[str]

Min(a, b) == IF a <= b THEN a ELSE b

-----------------------------------------------------------------------------
(* base64 (converter.py to_base64 / from_base64, session.py b64encode /    *)
(* b64decode).  A byte string is a sequence over 0..255; a base64 text is  *)
(* a sequence over 0..64, 64 standing for the '=' pad character.           *)

B64Pad == 64

Pow64(k) == CASE k = 0 -> 1 [] k = 1 -> 64 [] k = 2 -> 4096 [] k = 3 -> 262144

b64encode(b) ==
    LET n == Len(b)
        byte(i) == IF i <= n THEN b[i] ELSE 0
        sym(k) ==
            LET j == (k - 1) \div 4
                p == (k - 1) % 4
                have == Min(3, n - 3 * j)
                v == byte(3*j + 1) * 65536 + byte(3*j + 2) * 256 + byte(3*j + 3)
            IN  IF p > have THEN B64Pad ELSE (v \div Pow64(3 - p)) % 64
    IN  [k \in 1..(4 * ((n + 2) \div 3)) |-> sym(k)]

\* number of pad characters ending the text (0, 1 or 2 when well formed)
B64Pads(t) ==
    LET n == Len(t)
    IN  IF n >= 1 /\ t[n] = B64Pad
        THEN (IF n >= 2 /\ t[n-1] = B64Pad THEN 2 ELSE 1)
        ELSE 0

\* binascii.Error: wrong length, or a pad character before the tail
B64Invalid(t) ==
    \/ Len(t) % 4 # 0
    \/ \E i \in 1..(Len(t) - B64Pads(t)) : t[i] = B64Pad

b64decode(t) ==
    LET g == Len(t) \div 4
        n == 3 * g - B64Pads(t)
        val(i) == IF t[i] = B64Pad THEN 0 ELSE t[i]
        grp(j) == val(4*j + 1) * 262144 + val(4*j + 2) * 4096
                    + val(4*j + 3) * 64 + val(4*j + 4)
        byte(i) ==
            LET j == (i - 1) \div 3
                p == (i - 1) % 3
            IN  (grp(j) \div (CASE p = 0 -> 65536 [] p = 1 -> 256 [] p = 2 -> 1)) % 256
    IN  [i \in 1..n |-> byte(i)]

to_base64(audio_data) == b64encode(audio_data)

from_base64(b64_string) == b64decode(b64_string)

-----------------------------------------------------------------------------
(* AudioConverter (audio/converter.py).  audioop works on 16-bit signed     *)
(* little-endian samples; a conversion either returns bytes or raises       *)
(* audioop.error, returned here as [ok |-> FALSE].                          *)

Ok(data) == [ok |-> TRUE, data |-> data]
Raised == [ok |-> FALSE, data |-> <<>>]

RECURSIVE Pow2(_)
Pow2(k) == IF k = 0 THEN 1 ELSE 2 * Pow2(k - 1)

\* the samples of a PCM16 byte string of even length
Samples(pcm) ==
    [i \in 1..(Len(pcm) \div 2) |->
        LET v == pcm[2*i - 1] + 256 * pcm[2*i]
        IN  IF v >= 32768 THEN v - 65536 ELSE v]

\* the PCM16 byte string of a sequence of samples
Pcm16(samples) ==
    [i \in 1..(2 * Len(samples)) |->
        LET v == samples[(i + 1) \div 2] % 65536
        IN  IF i % 2 = 1 THEN v % 256 ELSE v \div 256]

\* G.711 expansion of one mu-law byte (audioop ulaw2lin table)
UlawExpand(u) ==
    LET c == 255 - u
        t == ((c % 16) * 8 + 132) * Pow2((c \div 16) % 8)
    IN  IF c >= 128 THEN 132 - t ELSE t - 132

\* G.711 compression of one sample (audioop st_14linear2ulaw on sample >> 2)
UlawCompress(sample) ==
    LET v14 == sample \div 4
        neg == v14 < 0
        mag == Min(IF neg THEN 0 - v14 ELSE v14, 32635) + 33
        segs == {k \in 0..7 : mag <= Pow2(k + 6) - 1}
        seg == IF segs = {} THEN 8 ELSE CHOOSE k \in segs : \A j \in segs : k <= j
        uval == seg * 16 + ((mag \div Pow2(Min(seg, 7) + 1)) % 16)
    IN  IF seg >= 8 THEN (IF neg THEN 0 ELSE 128)
        ELSE IF neg THEN 127 - uval ELSE 255 - uval

\* audioop.ratecv with state None, one channel, weights (1, 0): linear
\* interpolation driven by the counter d, over rates reduced by their gcd
RECURSIVE RatecvRun(_, _, _, _, _, _, _)
RatecvRun(samples, k, d, prev, cur, inrate, outrate) ==
    IF d < 0
    THEN IF k > Len(samples) THEN <<>>
         ELSE RatecvRun(samples, k + 1, d + outrate, cur, samples[k], inrate, outrate)
    ELSE <<(prev * d + cur * (outrate - d)) \div outrate>>
            \o RatecvRun(samples, k, d - inrate, prev, cur, inrate, outrate)

RECURSIVE Gcd(_, _)
Gcd(a, b) == IF b = 0 THEN a ELSE Gcd(b, a % b)

ulaw_to_pcm16(ulaw_data) ==
    Ok(Pcm16([i \in 1..Len(ulaw_data) |-> UlawExpand(ulaw_data[i])]))

\* variant: a trailing odd byte is ignored instead of refused
pcm16_to_ulaw_Truncating(pcm_data) ==
    Ok([i \in 1..(Len(pcm_data) \div 2) |-> UlawCompress(Samples(pcm_data)[i])])

\* converter.py:32-43, audioop.lin2ulaw(pcm_data, 2)
pcm16_to_ulaw(pcm_data) ==
    IF Len(pcm_data) % 2 # 0 THEN Raised      \* "not a whole number of frames"
    ELSE Ok([i \in 1..(Len(pcm_data) \div 2) |-> UlawCompress(Samples(pcm_data)[i])])

resample(audio_data, from_rate, to_rate) ==
    IF from_rate = to_rate THEN Ok(audio_data)
    ELSE IF Len(audio_data) % 2 # 0 THEN Raised
    ELSE LET g == Gcd(from_rate, to_rate)
         IN  Ok(Pcm16(RatecvRun(Samples(audio_data), 1, 0 - (to_rate \div g), 0, 0,
                                from_rate \div g, to_rate \div g)))

smartflo_to_gemini(ulaw_data) ==
    LET pcm_8k == ulaw_to_pcm16(ulaw_data)
    IN  resample(pcm_8k.data, 8000, 16000)

\* variant: a trailing byte that is no whole sample is dropped before the
\* conversion
gemini_to_smartflo_DropsOddByte(pcm_data, gemini_rate) ==
    LET whole == SubSeq(pcm_data, 1, Len(pcm_data) - (Len(pcm_data) % 2))
        pcm_8k == resample(whole, gemini_rate, 8000)
    IN  IF pcm_8k.ok THEN pcm16_to_ulaw(pcm_8k.data) ELSE Raised

\* converter.py:83-101
gemini_to_smartflo(pcm_data, gemini_rate) ==
    LET pcm_8k == resample(pcm_data, gemini_rate, 8000)
    IN  IF pcm_8k.ok THEN pcm16_to_ulaw(pcm_8k.data) ELSE Raised


-----------------------------------------------------------------------------
(* The objects of one call.  The methods below are state transformers on    *)
(* this record; Commit writes the result back.  The field out collects what *)
(* the code of one step hands to the outside besides the two sockets: the   *)
(* callbacks it invokes and the speaking mark it logs, in program order.    *)

World ==
    [s |-> smartflo_session, k |-> websocket, g |-> gemini_client, m |-> ws, o |-> orch,
     out |-> <<>>]

Emit(w, what, arg) == [w EXCEPT !.out = Append(@, <<what, arg>>)]

Commit(w) ==
    /\ smartflo_session' = w.s
    /\ websocket' = w.k
    /\ gemini_client' = w.g
    /\ ws' = w.m
    /\ orch' = w.o

\* SmartfloAudioSession.__init__ (session.py:22-39)
SessionInit ==
    [connected |-> FALSE, stream_sid |-> None, call_sid |-> None,
     on_audio_callback |-> FALSE, on_start_callback |-> FALSE, on_stop_callback |-> FALSE,
     audio_chunks_received |-> 0, audio_chunks_sent |-> 0, start_time |-> FALSE]

\* the telephony socket before accept: nothing written yet
SocketInit == [state |-> "connecting", sent |-> <<>>]

\* GeminiLiveClient.__init__ (client.py:29-41); ws is None until connect()
ClientInit ==
    [has_ws |-> FALSE, connected |-> FALSE,
     audio_callback |-> FALSE, transcript_callback |-> FALSE, vad_callback |-> FALSE,
     user_speaking |-> FALSE, bot_speaking |-> FALSE]

\* StreamingOrchestrator.__init__ (orchestrator.py:23-36)
OrchInit ==
    [running |-> FALSE, tasks |-> {}, audio_in_count |-> 0, audio_out_count |-> 0,
     last_user_audio_time |-> FALSE, response_start_time |-> FALSE]

-----------------------------------------------------------------------------
(* GeminiLiveClient.send_audio_chunk (client.py:101-133) *)

RealtimeInput(audio_b64) == [kind |-> "realtime_input", data |-> audio_b64]

\* variant: the mark of line 115 is written on every chunk, whatever the flag
send_audio_chunk_LevelTriggered(w, pcm_data) ==
    IF ~w.g.connected \/ ~w.g.has_ws THEN w
    ELSE LET w1 == Emit([w EXCEPT !.g.user_speaking = TRUE], "log", "user_started")
         IN  IF w1.m.state = "open"
             THEN [w1 EXCEPT !.m.sent = Append(@, RealtimeInput(to_base64(pcm_data)))]
             ELSE w1

\* variant: the chunk is put in front of what was sent before
send_audio_chunk_Prepend(w, pcm_data) ==
    IF ~w.g.connected \/ ~w.g.has_ws THEN w
    ELSE LET w1 == IF ~w.g.user_speaking
                   THEN Emit([w EXCEPT !.g.user_speaking = TRUE], "log", "user_started")
                   ELSE w
         IN  IF w1.m.state = "open"
             THEN [w1 EXCEPT !.m.sent = <<RealtimeInput(to_base64(pcm_data))>> \o @]
             ELSE w1

\* client.py:101-133
send_audio_chunk(w, pcm_data) ==
    IF ~w.g.connected \/ ~w.g.has_ws THEN w
    ELSE LET w1 == IF ~w.g.user_speaking          \* client.py:113-115
                   THEN Emit([w EXCEPT !.g.user_speaking = TRUE], "log", "user_started")
                   ELSE w
         IN  IF w1.m.state = "open"
             THEN [w1 EXCEPT !.m.sent = Append(@, RealtimeInput(to_base64(pcm_data)))]
             ELSE w1        \* ws.send raises ConnectionClosed: caught and logged

-----------------------------------------------------------------------------
(* SmartfloAudioSession.send_audio (session.py:139-172) *)

MediaOut(stream_sid, payload_b64) ==
    [event |-> "media", streamSid |-> stream_sid, payload |-> payload_b64]

\* variant: the frame is sent as it is
PadFrame_NoPadding(ulaw_data) == ulaw_data

\* variant: the padding is computed without the test of line 152
PadFrame_Always(ulaw_data) ==
    ulaw_data \o [i \in 1..(FrameSize - (Len(ulaw_data) % FrameSize)) |-> SilenceByte]

\* session.py:152-154: pad with silence to the next multiple of 160
PadFrame(ulaw_data) ==
    IF Len(ulaw_data) % FrameSize # 0
    THEN LET padding == FrameSize - (Len(ulaw_data) % FrameSize)
         IN  ulaw_data \o [i \in 1..padding |-> SilenceByte]
    ELSE ulaw_data

\* variant: the guard of line 147 tests the connection only
send_audio_NoStreamSidTest(w, ulaw_data) ==
    IF ~w.s.connected THEN w
    ELSE IF w.k.state = "open"
         THEN [w EXCEPT !.k.sent = Append(@, MediaOut(w.s.stream_sid, b64encode(PadFrame(ulaw_data)))),
                        !.s.audio_chunks_sent = @ + 1]
         ELSE w

\* variant: the guard of line 147 tests the stream id only
send_audio_NoConnectedTest(w, ulaw_data) ==
    IF Falsy(w.s.stream_sid) THEN w
    ELSE IF w.k.state = "open"
         THEN [w EXCEPT !.k.sent = Append(@, MediaOut(w.s.stream_sid, b64encode(PadFrame(ulaw_data)))),
                        !.s.audio_chunks_sent = @ + 1]
         ELSE w

send_audio(w, ulaw_data) ==
    IF ~w.s.connected \/ Falsy(w.s.stream_sid) THEN w
    ELSE IF w.k.state = "open"
         THEN [w EXCEPT !.k.sent = Append(@, MediaOut(w.s.stream_sid, b64encode(PadFrame(ulaw_data)))),
                        !.s.audio_chunks_sent = @ + 1]
         ELSE w             \* send_text raises on a closed socket: caught and logged

-----------------------------------------------------------------------------
(* The cross-wiring callbacks of StreamingOrchestrator._setup_callbacks     *)

\* variant: a frame that interrupts a response only clears the tracking and is
\* not forwarded
handle_smartflo_audio_DropsInterrupting(w, ulaw_data) ==
    LET w1 == [w EXCEPT !.o.response_start_time = FALSE,
                        !.o.last_user_audio_time = TRUE,
                        !.o.audio_in_count = @ + 1]
        pcm_data == smartflo_to_gemini(ulaw_data)
    IN  IF pcm_data.ok /\ ~w.o.response_start_time
        THEN send_audio_chunk(w1, pcm_data.data) ELSE w1

\* orchestrator.py:75-94
handle_smartflo_audio(w, ulaw_data) ==
    LET w1 == [w EXCEPT !.o.response_start_time = FALSE,
                        !.o.last_user_audio_time = TRUE,
                        !.o.audio_in_count = @ + 1]
        pcm_data == smartflo_to_gemini(ulaw_data)
    IN  IF pcm_data.ok THEN send_audio_chunk(w1, pcm_data.data) ELSE w1

\* variant: a chunk is counted only when the telephony session can send it
handle_gemini_audio_CountsSentOnly(w, pcm_data) ==
    LET w1 == [w EXCEPT !.o.response_start_time = TRUE,
                        !.o.audio_out_count =
                            IF w.s.connected /\ ~Falsy(w.s.stream_sid) THEN @ + 1 ELSE @]
        ulaw_data == gemini_to_smartflo(pcm_data, 24000)
    IN  IF ulaw_data.ok THEN send_audio(w1, ulaw_data.data) ELSE w1

\* orchestrator.py:97-115
handle_gemini_audio(w, pcm_data) ==
    LET w1 == [w EXCEPT !.o.response_start_time = TRUE,
                        !.o.audio_out_count = @ + 1]
        ulaw_data == gemini_to_smartflo(pcm_data, 24000)
    IN  IF ulaw_data.ok THEN send_audio(w1, ulaw_data.data) ELSE w1

\* orchestrator.py:123-126
_setup_callbacks(w) ==
    [w EXCEPT !.s.on_audio_callback = TRUE,
              !.g.audio_callback = TRUE,
              !.g.transcript_callback = TRUE]


-----------------------------------------------------------------------------
(* SmartfloAudioSession: accept, the read loop's body, close                *)

\* session.py:41-46
accept(w) ==
    [w EXCEPT !.k.state = "open", !.s.connected = TRUE, !.s.start_time = TRUE]

\* session.py:88-102
_handle_start(w, message) ==
    LET w1 == [w EXCEPT !.s.stream_sid = IF Falsy(message.streamSid)
                                         THEN message.start_streamSid
                                         ELSE message.streamSid,
                        !.s.call_sid = message.callSid]
    IN  IF w1.s.on_start_callback THEN Emit(w1, "on_start_callback", None) ELSE w1

\* variant: the frame is handed to the orchestrator whether or not its callback
\* has been registered
_handle_media_NoCallbackTest(w, message) ==
    IF ~message.has_payload \/ message.payload = <<>> THEN w
    ELSE IF B64Invalid(message.payload) THEN w
    ELSE LET ulaw_data == b64decode(message.payload)
             w1 == [w EXCEPT !.s.audio_chunks_received = @ + 1]
         IN  handle_smartflo_audio(Emit(w1, "on_audio_callback", ulaw_data), ulaw_data)

\* variant: the frame is counted before its payload is decoded
_handle_media_CountFirst(w, message) ==
    IF ~message.has_payload \/ message.payload = <<>> THEN w
    ELSE LET w1 == [w EXCEPT !.s.audio_chunks_received = @ + 1]
         IN  IF B64Invalid(message.payload) THEN w1
             ELSE IF w1.s.on_audio_callback
                  THEN handle_smartflo_audio(
                          Emit(w1, "on_audio_callback", b64decode(message.payload)),
                          b64decode(message.payload))
                  ELSE w1

\* session.py:104-125
_handle_media(w, message) ==
    IF ~message.has_payload \/ message.payload = <<>> THEN w
    ELSE IF B64Invalid(message.payload) THEN w         \* binascii.Error, logged
    ELSE LET ulaw_data == b64decode(message.payload)
             w1 == [w EXCEPT !.s.audio_chunks_received = @ + 1]
         IN  IF w1.s.on_audio_callback
             THEN handle_smartflo_audio(Emit(w1, "on_audio_callback", ulaw_data), ulaw_data)
             ELSE w1

\* session.py:127-137
_handle_stop(w, message) ==
    IF w.s.on_stop_callback THEN Emit(w, "on_stop_callback", None) ELSE w

\* session.py:80-82, the finally block of handle_events
handle_events_finally(w) == [w EXCEPT !.s.connected = FALSE]

\* session.py:54-76, one iteration of the loop over iter_text()
handle_events_body(w, message) ==
    IF ~message.json THEN w                            \* JSONDecodeError, logged
    ELSE CASE message.event = "connected" -> w
           [] message.event = "start" -> _handle_start(w, message)
           [] message.event = "media" -> _handle_media(w, message)
           [] message.event = "stop" -> handle_events_finally(_handle_stop(w, message))
           [] OTHER -> w

\* session.py:174-183, the part of close() after websocket.close() returned or raised
close_finally(w) == [w EXCEPT !.s.connected = FALSE]

\* websocket.close() of the telephony socket; a second close raises RuntimeError,
\* which close() catches
websocket_close(w) == [w EXCEPT !.k.state = "closed"]

-----------------------------------------------------------------------------
(* GeminiLiveClient: connect, the read loop's body, close                   *)

SetupMessage == [kind |-> "setup", data |-> <<>>]

\* variant: connect() sets ws and connected and leaves the setup message unsent
connect_ok_NoSetup(w) ==
    [w EXCEPT !.g.has_ws = TRUE, !.g.connected = TRUE, !.m.state = "open"]

\* client.py:47-57 when websockets.connect and ws.send succeed
connect_ok(w) ==
    [w EXCEPT !.g.has_ws = TRUE, !.g.connected = TRUE,
              !.m.state = "open", !.m.sent = Append(@, SetupMessage)]

\* client.py:59-62 when websockets.connect raises
connect_failed(w) == [w EXCEPT !.g.connected = FALSE]

\* variant: connect() without client.py:61, the flag set at line 53 is kept
send_config_failed_StaysConnected(w) ==
    [w EXCEPT !.g.has_ws = TRUE, !.g.connected = TRUE, !.m.state = "closed_error"]

\* client.py:57-62 when the socket opened and ws.send of the setup raises
send_config_failed(w) ==
    [w EXCEPT !.g.has_ws = TRUE, !.g.connected = FALSE, !.m.state = "closed_error"]

IsAudio(mime_type) == mime_type = "audio/pcm"

\* `if self.vad_callback: await self.vad_callback(signal)`
Vad(w, signal) == IF w.g.vad_callback THEN Emit(w, "vad_callback", signal) ELSE w

\* client.py:173-195: the parts of a modelTurn in order; a part whose data
\* cannot be decoded raises, which ends the handling of the whole message
RECURSIVE HandleParts(_, _, _)
HandleParts(w, parts, i) ==
    IF i > Len(parts) THEN [w |-> w, ok |-> TRUE]
    ELSE LET part == parts[i]
             audio == /\ part.inlineData
                      /\ IsAudio(part.mimeType)
                      /\ w.g.audio_callback
                      /\ part.data # <<>>
             text == w.g.transcript_callback /\ part.text # ""
         IN  IF audio /\ B64Invalid(part.data) THEN [w |-> w, ok |-> FALSE]
             ELSE LET w1 == IF audio
                            THEN handle_gemini_audio(
                                    Emit(w, "audio_callback", from_base64(part.data)),
                                    from_base64(part.data))
                            ELSE w
                      w2 == IF text THEN Emit(w1, "transcript_callback", part.text) ELSE w1
                  IN  HandleParts(w2, parts, i + 1)

\* client.py:155-195
HandleModelTurn(w, message) ==
    IF ~message.modelTurn THEN [w |-> w, ok |-> TRUE]
    ELSE LET w1 == IF ~w.g.bot_speaking
                   THEN Vad([w EXCEPT !.g.bot_speaking = TRUE, !.g.user_speaking = FALSE],
                            "user_stopped")
                   ELSE w
         IN  HandleParts(w1, message.parts, 1)

\* client.py:197-203
HandleTurnComplete(w, message) ==
    IF message.turnComplete
    THEN Vad([w EXCEPT !.g.bot_speaking = FALSE], "turn_complete")
    ELSE w

\* client.py:205-224: the first block (205-216) calls the callback with
\* "interrupted" and "turn_complete", the second (218-224) with "interrupted"
HandleInterrupted(w, message) ==
    IF message.interrupted
    THEN Vad(Vad(Vad([w EXCEPT !.g.bot_speaking = FALSE, !.g.user_speaking = TRUE],
                     "interrupted"), "turn_complete"), "interrupted")
    ELSE w

\* client.py:147-237, one iteration of the loop over the model socket
receive_events_body(w, message) ==
    IF ~message.json \/ ~message.serverContent THEN w
    ELSE LET r == HandleModelTurn(w, message)
         IN  IF r.ok THEN HandleInterrupted(HandleTurnComplete(r.w, message), message)
             ELSE r.w

\* client.py:144 and 239-241: the loop over the socket ends silently on a normal
\* closure (ConnectionClosedOK) and through the except clause on an abnormal one
receive_events_closed(w) ==
    IF w.m.state = "closed_error" THEN [w EXCEPT !.g.connected = FALSE] ELSE w

\* client.py:250, ws.close() called: an open connection starts its closing handshake
ws_close(w) == IF w.m.state = "open" THEN [w EXCEPT !.m.state = "closed_ok"] ELSE w

\* client.py:251, after ws.close() returned
gemini_close_done(w) == [w EXCEPT !.g.connected = FALSE]


-----------------------------------------------------------------------------
(* StreamingOrchestrator.stop (orchestrator.py:183-197).  stop() runs       *)
(* without suspension up to its first await that really waits: ws.close()   *)
(* of an open model socket, or websocket.close() of an open telephony       *)
(* socket.  Closing an already closed model socket may or may not yield to  *)
(* the event loop, depending on the websockets version: yield chooses.      *)

Tasks == {"t1", "t2", "t3"}

\* session.close() up to its await (session.py:174-178)
session_close_enter(w) ==
    IF w.s.connected
    THEN IF w.k.state = "open"
         THEN [w |-> websocket_close(w), pos |-> "session_close"]
         ELSE [w |-> close_finally(w), pos |-> "returned"]   \* close raises: caught
    ELSE [w |-> w, pos |-> "returned"]

\* what session.close() adds to the record of stop c, and the return of stop c
\* when session.close() does not suspend
SessionCloseEvents(w, c) ==
    (IF w.s.connected THEN <<<<c, "telephony_close">>>> ELSE <<>>)
    \o (IF session_close_enter(w).pos = "returned" THEN <<<<c, "returned">>>> ELSE <<>>)

\* stop() without orchestrator.py:186: the running flag is left as it is
stop_enter_KeepsRunning(w, c, pcs, yield) ==
    LET cancelled == {t \in w.o.tasks : pcs[t] # "done"}
        ev1 == <<<<c, "running_false">>, <<c, "tasks_cancelled">>>>
    IN  IF w.g.has_ws /\ (w.m.state = "open" \/ yield)
        THEN [w |-> ws_close(w), cancelled |-> cancelled, pos |-> "gemini_close",
              events |-> ev1]
        ELSE LET w2 == IF w.g.has_ws THEN gemini_close_done(w) ELSE w
                 r == session_close_enter(w2)
             IN  [w |-> r.w, cancelled |-> cancelled, pos |-> r.pos,
                  events |-> ev1 \o <<<<c, "model_closed">>>> \o SessionCloseEvents(w2, c)]

\* stop() with orchestrator.py:194 and 195 exchanged: the telephony session is
\* closed before the model session
stop_enter_TelephonyFirst(w, c, pcs, yield) ==
    LET w1 == [w EXCEPT !.o.running = FALSE]
        cancelled == {t \in w.o.tasks : pcs[t] # "done"}
        ev1 == <<<<c, "running_false">>, <<c, "tasks_cancelled">>>>
              \o (IF w.s.connected THEN <<<<c, "telephony_close">>>> ELSE <<>>)
        r == session_close_enter(w1)
    IN  IF r.pos = "session_close"
        THEN [w |-> r.w, cancelled |-> cancelled, pos |-> "session_close", events |-> ev1]
        ELSE IF r.w.g.has_ws /\ (r.w.m.state = "open" \/ yield)
        THEN [w |-> ws_close(r.w), cancelled |-> cancelled, pos |-> "gemini_close",
              events |-> ev1]
        ELSE [w |-> IF r.w.g.has_ws THEN gemini_close_done(r.w) ELSE r.w,
              cancelled |-> cancelled, pos |-> "returned",
              events |-> ev1 \o <<<<c, "model_closed">>, <<c, "returned">>>>]

\* orchestrator.py:186-195 from the call to the first suspension (or the return)
stop_enter(w, c, pcs, yield) ==
    LET w1 == [w EXCEPT !.o.running = FALSE]
        cancelled == {t \in w.o.tasks : pcs[t] # "done"}
        ev1 == <<<<c, "running_false">>, <<c, "tasks_cancelled">>>>
    IN  IF w1.g.has_ws /\ (w1.m.state = "open" \/ yield)
        THEN [w |-> ws_close(w1), cancelled |-> cancelled, pos |-> "gemini_close",
              events |-> ev1]
        ELSE LET w2 == IF w1.g.has_ws THEN gemini_close_done(w1) ELSE w1
                 r == session_close_enter(w2)
             IN  [w |-> r.w, cancelled |-> cancelled, pos |-> r.pos,
                  events |-> ev1 \o <<<<c, "model_closed">>>> \o SessionCloseEvents(w2, c)]

\* orchestrator.py:194-195 when ws.close() returns
stop_after_gemini(w, c) ==
    LET w2 == gemini_close_done(w)
        r == session_close_enter(w2)
    IN  [w |-> r.w, pos |-> r.pos,
         events |-> <<<<c, "model_closed">>>> \o SessionCloseEvents(w2, c)]

\* the coroutine that called stop c
Caller(c) == IF c = "S" THEN "stream" ELSE "endpoint"

-----------------------------------------------------------------------------
(* Messages the peers can send *)

TMsg(event) ==
    [json |-> TRUE, event |-> event, streamSid |-> None, start_streamSid |-> None,
     callSid |-> None, has_payload |-> FALSE, payload |-> <<>>]

InFrames == {<<0, 255>>}            \* mu-law frames of the caller

BadB64 == <<16, 20, 9>>             \* three characters: "Incorrect padding"

\* <<streamSid, start.streamSid, start.callSid>> of the start events considered
StartFields ==
    {<<None, None, None>>, <<"", None, "C1">>, <<"S1", None, "C1">>,
     <<None, "S1", "C1">>, <<"S2", "S1", "C2">>}

TelephonyMessages ==
    {[TMsg("") EXCEPT !.json = FALSE], TMsg("connected"), TMsg("stop"), TMsg("mark"),
     TMsg("media")}
    \cup {[TMsg("start") EXCEPT !.streamSid = x[1], !.start_streamSid = x[2],
                                !.callSid = x[3]] : x \in StartFields}
    \cup {[TMsg("media") EXCEPT !.has_payload = TRUE, !.payload = p] :
            p \in {<<>>, BadB64} \cup {b64encode(f) : f \in InFrames}}

CountsAsReceived(message) ==
    /\ message.json /\ message.event = "media"
    /\ message.has_payload /\ message.payload # <<>> /\ ~B64Invalid(message.payload)

AudioPart(pcm) == [inlineData |-> TRUE, mimeType |-> "audio/pcm", data |-> to_base64(pcm), text |-> ""]
TextPart == [inlineData |-> FALSE, mimeType |-> "", data |-> <<>>, text |-> "hi"]
BadPart == [inlineData |-> TRUE, mimeType |-> "audio/pcm", data |-> BadB64, text |-> ""]

Pcm24k == <<0, 0, 16, 39, 240, 216>>        \* three samples: 0, 10000, -10000
PcmOdd == <<1, 2, 3>>

PartLists ==
    {<<>>, <<AudioPart(Pcm24k)>>, <<TextPart>>, <<AudioPart(PcmOdd)>>, <<BadPart>>,
     <<TextPart, AudioPart(Pcm24k)>>, <<AudioPart(Pcm24k), AudioPart(Pcm24k)>>}

GMsg ==
    [json |-> TRUE, serverContent |-> FALSE, setupComplete |-> FALSE, modelTurn |-> FALSE,
     parts |-> <<>>, turnComplete |-> FALSE, interrupted |-> FALSE]

ModelMessages ==
    {[GMsg EXCEPT !.json = FALSE], [GMsg EXCEPT !.setupComplete = TRUE]}
    \cup {[GMsg EXCEPT !.serverContent = TRUE, !.turnComplete = tc, !.interrupted = i] :
            tc \in BOOLEAN, i \in BOOLEAN}
    \cup {[GMsg EXCEPT !.serverContent = TRUE, !.modelTurn = TRUE, !.parts = ps,
                       !.turnComplete = tc, !.interrupted = i] :
            ps \in PartLists, tc \in BOOLEAN, i \in BOOLEAN}

\* audio parts of a message that reach the audio callback at most
NumAudio(message) ==
    IF message.json /\ message.serverContent /\ message.modelTurn
    THEN Cardinality({i \in 1..Len(message.parts) : message.parts[i].inlineData})
    ELSE 0


-----------------------------------------------------------------------------
(* The call served by /smartflo/audio (server.py:81-121): the endpoint       *)
(* coroutine, the stream task running start(), and the tasks t1 (telephony   *)
(* liveness), t2 (model receive) and t3 (health).                            *)

Init ==
    /\ smartflo_session = SessionInit
    /\ websocket = SocketInit
    /\ gemini_client = ClientInit
    /\ ws = [state |-> "unopened", sent |-> <<>>]
    /\ orch = OrchInit
    /\ pc = [endpoint |-> "accept", stream |-> "none", t1 |-> "none", t2 |-> "none",
             t3 |-> "none"]
    /\ cancel = {}
    /\ stops = [S |-> "idle", E |-> "idle"]
    /\ hist = [events |-> <<>>, cancelled |-> FALSE, op |-> "init", frame |-> <<>>,
               wrote |-> FALSE, msg |-> TMsg(""), out |-> <<>>, wire_in |-> <<>>,
               model_in |-> <<>>, calls |-> <<>>,
               started_in |-> 0, started_out |-> 0, parts |-> <<>>]

\* asyncio runs the callbacks that are ready, the delivery of a requested
\* cancellation among them, before it polls for I/O and timers
IoReady == cancel = {}

\* a finally block calls stop c: the caller runs stop() up to its first suspension
EnterStop(w, c, pcs, cn, h, yield) ==
    LET r == stop_enter(w, c, pcs, yield)
    IN  /\ Commit(r.w)
        /\ cancel' = cn \cup r.cancelled
        /\ stops' = [stops EXCEPT ![c] = r.pos]
        /\ pc' = [pcs EXCEPT ![Caller(c)] = IF r.pos = "returned" THEN "done" ELSE "stop"]
        /\ hist' = [h EXCEPT !.events = @ \o r.events]

\* server.py:97-104: accept, create the orchestrator and the stream task
EndpointAccept ==
    /\ pc["endpoint"] = "accept"
    /\ \E ok \in BOOLEAN :
         IF ok
         THEN /\ Commit(accept(World))
              /\ pc' = [pc EXCEPT !["endpoint"] = "handle_events", !["stream"] = "connect"]
         ELSE /\ Commit([World EXCEPT !.k.state = "closed"])
              /\ pc' = [pc EXCEPT !["endpoint"] = "done"]
    /\ UNCHANGED <<cancel, stops, hist>>

\* server.py:107 -> session.py:54-82: one message read by the loop
HandleEvent ==
    /\ pc["endpoint"] = "handle_events"
    /\ websocket.state = "open"
    /\ IoReady
    /\ \E message \in TelephonyMessages :
         /\ CountsAsReceived(message) => smartflo_session.audio_chunks_received < MaxChunks
         /\ Commit(handle_events_body(World, message))
         /\ pc' = [pc EXCEPT !["endpoint"] =
                      IF message.json /\ message.event = "stop" THEN "await_stream" ELSE @]
    /\ UNCHANGED <<cancel, stops, hist>>

\* session.py:54, 80-82: iter_text() ends when the socket is disconnected
HandleDisconnect ==
    /\ pc["endpoint"] = "handle_events"
    /\ websocket.state \in {"peer_closed", "closed"}
    /\ IoReady
    /\ Commit(handle_events_finally(World))
    /\ pc' = [pc EXCEPT !["endpoint"] = "await_stream"]
    /\ UNCHANGED <<cancel, stops, hist>>

\* the caller hangs up
TelephonyPeerClose ==
    /\ websocket.state = "open"
    /\ websocket' = [websocket EXCEPT !.state = "peer_closed"]
    /\ UNCHANGED <<smartflo_session, gemini_client, ws, orch, pc, cancel, stops, hist>>

\* server.py:110, 116-118: the stream task is done, the finally block calls stop()
EndpointStreamDone ==
    /\ pc["endpoint"] = "await_stream"
    /\ pc["stream"] = "done"
    /\ \E yield \in BOOLEAN : EnterStop(World, "E", pc, cancel, hist, yield)

\* the server cancels the handler while it serves the call (server.py:107, 110):
\* CancelledError passes the except clauses and reaches the finally blocks; while
\* the handler awaits the stream task the cancellation is passed on to it, and
\* from a gather to the tasks gathered
CancelEndpoint ==
    /\ ~hist.cancelled
    /\ \/ /\ pc["endpoint"] = "handle_events"
          /\ \E yield \in BOOLEAN :
                EnterStop(handle_events_finally(World), "E", pc, cancel,
                          [hist EXCEPT !.cancelled = TRUE], yield)
       \/ /\ pc["endpoint"] = "await_stream"
          /\ pc["stream"] # "done"
          /\ cancel' = cancel \cup (IF pc["stream"] = "gather"
                                    THEN {t \in Tasks : pc[t] # "done"}
                                    ELSE {"stream"})
          /\ hist' = [hist EXCEPT !.cancelled = TRUE]
          /\ UNCHANGED <<smartflo_session, websocket, gemini_client, ws, orch, pc, stops>>

\* start() without its finally clause: a failed connect() ends start() at once
Connect_NoFinally ==
    /\ pc["stream"] = "connect"
    /\ IoReady
    /\ \E outcome \in {"ok", "refused", "send_failed"} :
         /\ IF outcome = "ok"
            THEN /\ Commit(_setup_callbacks([connect_ok(World) EXCEPT !.o.running = TRUE,
                                                                     !.o.tasks = Tasks]))
                 /\ pc' = [pc EXCEPT !["stream"] = "gather", !["t1"] = "ready",
                                     !["t2"] = "ready", !["t3"] = "ready"]
            ELSE /\ Commit(IF outcome = "refused" THEN connect_failed(World)
                           ELSE send_config_failed(World))
                 /\ pc' = [pc EXCEPT !["stream"] = "done"]
         /\ UNCHANGED <<cancel, stops, hist>>

\* orchestrator.py:43-69 from connect() to the gather, or to the finally block
Connect ==
    /\ pc["stream"] = "connect"
    /\ IoReady
    /\ \E outcome \in {"ok", "refused", "send_failed"}, yield \in BOOLEAN :
         IF outcome = "ok"
         THEN /\ Commit(_setup_callbacks([connect_ok(World) EXCEPT !.o.running = TRUE,
                                                                  !.o.tasks = Tasks]))
              /\ pc' = [pc EXCEPT !["stream"] = "gather", !["t1"] = "ready",
                                  !["t2"] = "ready", !["t3"] = "ready"]
              /\ UNCHANGED <<cancel, stops, hist>>
         ELSE EnterStop(IF outcome = "refused" THEN connect_failed(World)
                        ELSE send_config_failed(World), "S", pc, cancel, hist, yield)

\* a CancelledError reaches start(): in connect() it goes to the finally block;
\* inside stop() it ends stop() at its await (session.close() still runs its
\* own finally clause)
StreamCancelled ==
    /\ "stream" \in cancel
    /\ \/ /\ pc["stream"] = "connect"
          /\ \E yield \in BOOLEAN :
                EnterStop(World, "S", pc, cancel \ {"stream"}, hist, yield)
       \/ /\ pc["stream"] = "stop"
          /\ Commit(IF stops["S"] = "session_close" THEN close_finally(World) ELSE World)
          /\ stops' = [stops EXCEPT !["S"] = "aborted"]
          /\ pc' = [pc EXCEPT !["stream"] = "done"]
          /\ cancel' = cancel \ {"stream"}
          /\ UNCHANGED hist

\* orchestrator.py:64-69: gather returns once the three tasks are done
GatherDone ==
    /\ pc["stream"] = "gather"
    /\ \A t \in Tasks : pc[t] = "done"
    /\ \E yield \in BOOLEAN : EnterStop(World, "S", pc, cancel, hist, yield)


\* orchestrator.py:128-142: the liveness task checks the flags, sleeps one second
_forward_smartflo_to_gemini ==
    /\ "t1" \notin cancel
    /\ \/ /\ pc["t1"] = "ready"
          /\ pc' = [pc EXCEPT !["t1"] = IF orch.running /\ smartflo_session.connected
                                        THEN "sleep" ELSE "done"]
       \/ /\ pc["t1"] = "sleep"
          /\ IoReady
          /\ pc' = [pc EXCEPT !["t1"] = "ready"]
    /\ UNCHANGED <<smartflo_session, websocket, gemini_client, ws, orch, cancel, stops, hist>>

\* orchestrator.py:144-156 -> client.py:140-141: the receive task starts
\* (RuntimeError when the client is not connected, caught by the task)
_forward_gemini_to_smartflo ==
    /\ pc["t2"] = "ready"
    /\ "t2" \notin cancel
    /\ pc' = [pc EXCEPT !["t2"] = IF gemini_client.connected /\ gemini_client.has_ws
                                  THEN "recv" ELSE "done"]
    /\ UNCHANGED <<smartflo_session, websocket, gemini_client, ws, orch, cancel, stops, hist>>

\* client.py:144-237: one message read from the model socket
ReceiveEvent ==
    /\ pc["t2"] = "recv"
    /\ ws.state = "open"
    /\ IoReady
    /\ \E message \in ModelMessages :
         /\ orch.audio_out_count + NumAudio(message) <= MaxChunks
         /\ Commit(receive_events_body(World, message))
    /\ UNCHANGED <<pc, cancel, stops, hist>>

\* client.py:144, 239-241: the model socket is closed, receive_events returns
ReceiveClosed ==
    /\ pc["t2"] = "recv"
    /\ ws.state \in {"closed_ok", "closed_error"}
    /\ IoReady
    /\ Commit(receive_events_closed(World))
    /\ pc' = [pc EXCEPT !["t2"] = "done"]
    /\ hist' = [hist EXCEPT !.events = Append(@, <<"t2", "connection_closed">>)]
    /\ UNCHANGED <<cancel, stops>>

\* the model peer drops the connection, with or without a closing handshake
ModelPeerClose ==
    /\ ws.state = "open"
    /\ \E how \in {"closed_ok", "closed_error"} : ws' = [ws EXCEPT !.state = how]
    /\ UNCHANGED <<smartflo_session, websocket, gemini_client, orch, pc, cancel, stops, hist>>

\* orchestrator.py:158-181: the health task checks running, sleeps 30 s, resets
\* the response tracking
_health_check ==
    /\ "t3" \notin cancel
    /\ \/ /\ pc["t3"] = "ready"
          /\ pc' = [pc EXCEPT !["t3"] = IF orch.running THEN "sleep" ELSE "done"]
          /\ UNCHANGED orch
       \/ /\ pc["t3"] = "sleep"
          /\ IoReady
          /\ orch' = [orch EXCEPT !.response_start_time =
                         IF orch.audio_out_count > 0 THEN FALSE ELSE @]
          /\ pc' = [pc EXCEPT !["t3"] = "ready"]
    /\ UNCHANGED <<smartflo_session, websocket, gemini_client, ws, cancel, stops, hist>>

\* orchestrator.py:191: task.cancel() takes effect when the task next runs; t1 and
\* t2 end cancelled, t3 catches the CancelledError and leaves its loop
TaskCancelled(t) ==
    /\ t \in cancel
    /\ pc[t] \notin {"none", "done"}
    /\ pc' = [pc EXCEPT ![t] = "done"]
    /\ cancel' = cancel \ {t}
    /\ UNCHANGED <<smartflo_session, websocket, gemini_client, ws, orch, stops, hist>>

\* orchestrator.py:194-195: ws.close() returned to stop c
StopGeminiClosed(c) ==
    /\ stops[c] = "gemini_close"
    /\ IoReady
    /\ LET r == stop_after_gemini(World, c)
       IN  /\ Commit(r.w)
           /\ stops' = [stops EXCEPT ![c] = r.pos]
           /\ pc' = [pc EXCEPT ![Caller(c)] = IF r.pos = "returned" THEN "done" ELSE @]
           /\ hist' = [hist EXCEPT !.events = @ \o r.events]
    /\ UNCHANGED cancel

\* orchestrator.py:195-197: websocket.close() returned to session.close() of stop c
StopSessionClosed(c) ==
    /\ stops[c] = "session_close"
    /\ IoReady
    /\ Commit(close_finally(World))
    /\ stops' = [stops EXCEPT ![c] = "returned"]
    /\ pc' = [pc EXCEPT ![Caller(c)] = "done"]
    /\ hist' = [hist EXCEPT !.events = Append(@, <<c, "returned">>)]
    /\ UNCHANGED cancel

Next ==
    \/ EndpointAccept
    \/ HandleEvent
    \/ HandleDisconnect
    \/ TelephonyPeerClose
    \/ EndpointStreamDone
    \/ CancelEndpoint
    \/ Connect
    \/ StreamCancelled
    \/ GatherDone
    \/ _forward_smartflo_to_gemini
    \/ _forward_gemini_to_smartflo
    \/ ReceiveEvent
    \/ ReceiveClosed
    \/ ModelPeerClose
    \/ _health_check
    \/ \E t \in Tasks : TaskCancelled(t)
    \/ \E c \in {"S", "E"} : StopGeminiClosed(c)
    \/ \E c \in {"S", "E"} : StopSessionClosed(c)

Spec == Init /\ [][Next]_vars


FairSpec ==
    /\ Spec
    /\ WF_vars(EndpointAccept)
    /\ WF_vars(HandleDisconnect)
    /\ WF_vars(EndpointStreamDone)
    /\ WF_vars(Connect)
    /\ WF_vars(StreamCancelled)
    /\ WF_vars(GatherDone)
    /\ WF_vars(_forward_smartflo_to_gemini)
    /\ WF_vars(_forward_gemini_to_smartflo)
    /\ WF_vars(ReceiveClosed)
    /\ WF_vars(_health_check)
    /\ \A t \in Tasks : WF_vars(TaskCancelled(t))
    /\ \A c \in {"S", "E"} : WF_vars(StopGeminiClosed(c))
    /\ \A c \in {"S", "E"} : WF_vars(StopSessionClosed(c))

-----------------------------------------------------------------------------
(* The telephony session driven alone through its public methods: accept(),  *)
(* handle_events(), send_audio() with any frame at any time, close().        *)

FrameLens == {n \in 0..MaxFrameLen : n % FrameSize \in {0, 1, 2, FrameSize - 1}}

Frames == {[i \in 1..n |-> (7 * i) % 251] : n \in FrameLens}

Did(op, frame, wrote) == [hist EXCEPT !.op = op, !.frame = frame, !.wrote = wrote]

TelAccept ==
    /\ pc["endpoint"] = "accept"
    /\ \E ok \in BOOLEAN :
         IF ok
         THEN /\ Commit(accept(World))
              /\ pc' = [pc EXCEPT !["endpoint"] = "handle_events"]
         ELSE /\ Commit([World EXCEPT !.k.state = "closed"])
              /\ pc' = [pc EXCEPT !["endpoint"] = "done"]
    /\ hist' = Did("accept", <<>>, FALSE)
    /\ UNCHANGED <<cancel, stops>>

TelEvent ==
    /\ pc["endpoint"] = "handle_events"
    /\ websocket.state = "open"
    /\ \E message \in TelephonyMessages :
         /\ CountsAsReceived(message) => smartflo_session.audio_chunks_received < MaxChunks
         /\ Commit(handle_events_body(World, message))
         /\ pc' = [pc EXCEPT !["endpoint"] =
                      IF message.json /\ message.event = "stop" THEN "done" ELSE @]
         \* hist.msg keeps the last start event that was processed
         /\ hist' = [Did("event", <<>>, FALSE) EXCEPT !.msg =
                        IF message.json /\ message.event = "start" THEN message ELSE @]
    /\ UNCHANGED <<cancel, stops>>

TelDisconnect ==
    /\ pc["endpoint"] = "handle_events"
    /\ websocket.state \in {"peer_closed", "closed"}
    /\ Commit(handle_events_finally(World))
    /\ pc' = [pc EXCEPT !["endpoint"] = "done"]
    /\ hist' = Did("disconnect", <<>>, FALSE)
    /\ UNCHANGED <<cancel, stops>>

TelPeerClose ==
    /\ websocket.state = "open"
    /\ websocket' = [websocket EXCEPT !.state = "peer_closed"]
    /\ hist' = Did("peer_close", <<>>, FALSE)
    /\ UNCHANGED <<smartflo_session, gemini_client, ws, orch, pc, cancel, stops>>

TelSendAudio ==
    /\ smartflo_session.audio_chunks_sent < MaxSends
    /\ \E ulaw_data \in Frames :
         LET w == send_audio(World, ulaw_data)
         IN  /\ Commit(w)
             /\ hist' = Did("send_audio", ulaw_data, Len(w.k.sent) > Len(websocket.sent))
    /\ UNCHANGED <<pc, cancel, stops>>

\* close() called by another coroutine, and its return
TelClose ==
    /\ \/ /\ pc["stream"] = "none"
          /\ LET r == session_close_enter(World)
             IN  /\ Commit(r.w)
                 /\ pc' = [pc EXCEPT !["stream"] = IF r.pos = "returned" THEN "done" ELSE "stop"]
       \/ /\ pc["stream"] = "stop"
          /\ Commit(close_finally(World))
          /\ pc' = [pc EXCEPT !["stream"] = "done"]
    /\ hist' = Did("close", <<>>, FALSE)
    /\ UNCHANGED <<cancel, stops>>

TelNext ==
    \/ TelAccept
    \/ TelEvent
    \/ TelDisconnect
    \/ TelPeerClose
    \/ TelSendAudio
    \/ TelClose

TelSpec == Init /\ [][TelNext]_vars


-----------------------------------------------------------------------------
(* The two read loops of a call observed message by message: accept,        *)
(* connect and the wiring of the callbacks, then any interleaving of        *)
(* telephony and model messages until a loop ends.  The embedding program   *)
(* may have registered the callbacks the orchestrator leaves unset (vad,    *)
(* start, stop); a registered stop callback may raise.                      *)
(*   BridgeSpec keeps in hist the last message and what its handling handed *)
(*   to the callbacks; OrderSpec keeps what arrived on each wire and the    *)
(*   calls of the model loop, in order.                                     *)

FwdFrames == {<<0, 255>>, <<128>>}          \* two mu-law frames of the caller

Pcm24kB == <<16, 39, 16, 39, 16, 39>>       \* three samples of 10000

Media(payload) == [TMsg("media") EXCEPT !.has_payload = TRUE, !.payload = payload]

StartS1 == [TMsg("start") EXCEPT !.streamSid = "S1", !.callSid = "C1"]

BridgeTelephony ==
    {[TMsg("") EXCEPT !.json = FALSE], TMsg("mark"), TMsg("media"), Media(<<>>),
     Media(BadB64), StartS1, TMsg("stop")}
    \cup {Media(b64encode(f)) : f \in InFrames}

OrderTelephony == {StartS1, Media(BadB64)} \cup {Media(b64encode(f)) : f \in FwdFrames}

OrderModel ==
    {[GMsg EXCEPT !.serverContent = TRUE, !.modelTurn = TRUE, !.parts = <<AudioPart(Pcm24k)>>],
     [GMsg EXCEPT !.serverContent = TRUE, !.modelTurn = TRUE,
                  !.parts = <<AudioPart(Pcm24kB), BadPart>>],
     [GMsg EXCEPT !.serverContent = TRUE, !.modelTurn = TRUE,
                  !.parts = <<AudioPart(Pcm24k), AudioPart(Pcm24kB)>>, !.turnComplete = TRUE],
     [GMsg EXCEPT !.serverContent = TRUE, !.modelTurn = TRUE,
                  !.parts = <<AudioPart(PcmOdd), AudioPart(Pcm24k)>>],
     [GMsg EXCEPT !.serverContent = TRUE, !.interrupted = TRUE]}

IsStop(message) == message.json /\ message.event = "stop"

\* session.py:54-76 with the callbacks registered: one iteration of the loop and
\* whether it leaves the loop.  An exception of the stop callback is caught by
\* the clause of line 75, after which the loop reads the next message.
handle_events_iter(w, message, raises) ==
    IF IsStop(message) /\ w.s.on_stop_callback /\ raises
    THEN [w |-> _handle_stop(w, message), brk |-> FALSE]
    ELSE [w |-> handle_events_body(w, message), brk |-> IsStop(message)]

\* the audio parts of a model message, in the order of the message
RECURSIVE AudioOf(_)
AudioOf(parts) ==
    IF parts = <<>> THEN <<>>
    ELSE (IF Head(parts).inlineData /\ IsAudio(Head(parts).mimeType) /\ Head(parts).data # <<>>
          THEN <<Head(parts).data>> ELSE <<>>) \o AudioOf(Tail(parts))

\* what a model message carries, in the order in which client.py:155-224
\* looks at it: the model turn, its audio parts, turnComplete, interrupted
ItemsOf(message) ==
    IF ~message.json \/ ~message.serverContent THEN <<>>
    ELSE (IF message.modelTurn
          THEN <<<<"modelTurn", <<>>>>>> \o [i \in 1..Len(AudioOf(message.parts)) |->
                                              <<"audio", AudioOf(message.parts)[i]>>]
          ELSE <<>>)
         \o (IF message.turnComplete THEN <<<<"turnComplete", <<>>>>>> ELSE <<>>)
         \o (IF message.interrupted THEN <<<<"interrupted", <<>>>>>> ELSE <<>>)

\* the calls of the model loop to the audio callback and to the signal callback
ModelCalls(out) ==
    SelectSeq(out, LAMBDA e : e[1] \in {"audio_callback", "vad_callback"})

\* what hist keeps of one step: the message and the calls (BridgeSpec), or what
\* arrived on a wire and the calls of the model loop, in order (OrderSpec)
Seen(per_message, op, message, out, wire, arrived) ==
    IF per_message
    THEN [hist EXCEPT !.op = op, !.msg = message, !.out = out]
    ELSE [hist EXCEPT !.op = op, ![wire] = @ \o arrived,
                      !.calls = @ \o (IF op = "model" THEN ModelCalls(out) ELSE <<>>)]

\* server.py:97-104, and the registration of the callbacks left to the embedder
RxAccept(hooks) ==
    /\ pc["endpoint"] = "accept"
    /\ \E h \in hooks :
          Commit([accept(World) EXCEPT !.s.on_start_callback = h, !.s.on_stop_callback = h,
                                       !.g.vad_callback = h])
    /\ pc' = [pc EXCEPT !["endpoint"] = "handle_events", !["stream"] = "connect"]
    /\ hist' = [hist EXCEPT !.op = "accept", !.out = <<>>]
    /\ UNCHANGED <<cancel, stops>>

\* orchestrator.py:43-62 when connect() succeeds
RxConnect ==
    /\ pc["stream"] = "connect"
    /\ Commit(_setup_callbacks([connect_ok(World) EXCEPT !.o.running = TRUE,
                                                         !.o.tasks = Tasks]))
    /\ pc' = [pc EXCEPT !["stream"] = "gather", !["t1"] = "sleep", !["t2"] = "recv",
                        !["t3"] = "sleep"]
    /\ hist' = [hist EXCEPT !.op = "connect", !.out = <<>>]
    /\ UNCHANGED <<cancel, stops>>

\* session.py:54-82: one message read by the telephony loop
RxTelephony(messages, bound, per_message) ==
    /\ pc["endpoint"] = "handle_events"
    /\ websocket.state = "open"
    /\ \E message \in messages, raises \in BOOLEAN :
          /\ raises => IsStop(message) /\ smartflo_session.on_stop_callback
          /\ CountsAsReceived(message) => smartflo_session.audio_chunks_received < bound
          /\ LET r == handle_events_iter(World, message, raises)
             IN  /\ Commit(IF r.brk THEN handle_events_finally(r.w) ELSE r.w)
                 /\ pc' = [pc EXCEPT !["endpoint"] = IF r.brk THEN "done" ELSE @]
                 /\ hist' = Seen(per_message, "telephony", message, r.w.out, "wire_in",
                                 IF CountsAsReceived(message) THEN <<message.payload>>
                                 ELSE <<>>)
    /\ UNCHANGED <<cancel, stops>>

\* session.py:54, 80-82: the telephony socket is closed, the loop ends
RxTelephonyClosed ==
    /\ pc["endpoint"] = "handle_events"
    /\ websocket.state = "open"
    /\ Commit(handle_events_finally([World EXCEPT !.k.state = "peer_closed"]))
    /\ pc' = [pc EXCEPT !["endpoint"] = "done"]
    /\ hist' = [hist EXCEPT !.op = "telephony_closed", !.out = <<>>]
    /\ UNCHANGED <<cancel, stops>>

\* client.py:144-237: one message read by the model loop
RxModel(messages, bound, per_message) ==
    /\ pc["t2"] = "recv"
    /\ ws.state = "open"
    /\ \E message \in messages :
          /\ orch.audio_out_count + NumAudio(message) <= bound
          /\ Len(hist.model_in) < bound
          /\ LET w == receive_events_body(World, message)
             IN  /\ Commit(w)
                 /\ hist' = Seen(per_message, "model", message, w.out, "model_in",
                                 <<ItemsOf(message)>>)
    /\ UNCHANGED <<pc, cancel, stops>>

\* client.py:144, 239-241: the model socket is closed, the loop ends
RxModelClosed ==
    /\ pc["t2"] = "recv"
    /\ ws.state = "open"
    /\ \E how \in {"closed_ok", "closed_error"} :
          Commit(receive_events_closed([World EXCEPT !.m.state = how]))
    /\ pc' = [pc EXCEPT !["t2"] = "done"]
    /\ hist' = [hist EXCEPT !.op = "model_closed", !.out = <<>>]
    /\ UNCHANGED <<cancel, stops>>

BrAccept == RxAccept(BOOLEAN)

BrTelephony == RxTelephony(BridgeTelephony, MaxFwd, TRUE)

BrModel == RxModel(ModelMessages, MaxChunks, TRUE)

BridgeNext ==
    \/ BrAccept
    \/ RxConnect
    \/ BrTelephony
    \/ RxTelephonyClosed
    \/ BrModel
    \/ RxModelClosed

BridgeSpec == Init /\ [][BridgeNext]_vars

OrdAccept == RxAccept({TRUE})

OrdTelephony == RxTelephony(OrderTelephony, MaxFwd, FALSE)

OrdModel == RxModel(OrderModel, MaxFwd, FALSE)

OrderNext ==
    \/ OrdAccept
    \/ RxConnect
    \/ OrdTelephony
    \/ RxTelephonyClosed
    \/ OrdModel
    \/ RxModelClosed

OrderSpec == Init /\ [][OrderNext]_vars

-----------------------------------------------------------------------------
(* The tasks of a call between their suspension points.  A coroutine runs   *)
(* without interruption from one await that really waits to the next; the   *)
(* awaits of a call are the reads of the two sockets, the sleeps of the     *)
(* liveness and health tasks, ws.send at the end of the telephony callback  *)
(* (nothing follows it) and websocket.send_text inside send_audio, which    *)
(* is followed by the increment of audio_chunks_sent.  TaskSpec splits the  *)
(* model loop at send_text and keeps in hist the number of invocations of   *)
(* each audio callback (started_in, started_out), the message the model     *)
(* loop is handling (msg) and the parts still to handle (parts).            *)

\* session.py:147-167: send_audio from its call to the await of send_text
send_audio_enter(w, ulaw_data) ==
    IF ~w.s.connected \/ Falsy(w.s.stream_sid) THEN [w |-> w, suspended |-> FALSE]
    ELSE IF w.k.state = "open"
         THEN [w |-> [w EXCEPT !.k.sent = Append(@, MediaOut(w.s.stream_sid,
                                                        b64encode(PadFrame(ulaw_data))))],
               suspended |-> TRUE]
         ELSE [w |-> w, suspended |-> FALSE]       \* send_text raises at once

\* session.py:167-171: send_text returns, or raises on a socket closed meanwhile
send_audio_return(w) ==
    IF w.k.state = "open" THEN [w EXCEPT !.s.audio_chunks_sent = @ + 1] ELSE w

\* variant: the chunk is counted after its conversion
handle_gemini_audio_enter_CountsLate(w, pcm_data) ==
    LET w1 == [w EXCEPT !.o.response_start_time = TRUE]
        ulaw_data == gemini_to_smartflo(pcm_data, 24000)
    IN  IF ulaw_data.ok
        THEN send_audio_enter([w1 EXCEPT !.o.audio_out_count = @ + 1], ulaw_data.data)
        ELSE [w |-> w1, suspended |-> FALSE]

\* orchestrator.py:97-112: the callback from its call to the await in send_audio
handle_gemini_audio_enter(w, pcm_data) ==
    LET w1 == [w EXCEPT !.o.response_start_time = TRUE,
                        !.o.audio_out_count = @ + 1]
        ulaw_data == gemini_to_smartflo(pcm_data, 24000)
    IN  IF ulaw_data.ok THEN send_audio_enter(w1, ulaw_data.data)
        ELSE [w |-> w1, suspended |-> FALSE]

\* client.py:159-165
bot_starts(w) ==
    IF ~w.g.bot_speaking
    THEN Vad([w EXCEPT !.g.bot_speaking = TRUE, !.g.user_speaking = FALSE], "user_stopped")
    ELSE w

\* client.py:173-195: the parts from the next one to the first suspension; the
\* part whose audio callback is suspended stays in rest without its audio
RECURSIVE PartsUntilSuspension(_, _)
PartsUntilSuspension(w, parts) ==
    IF parts = <<>> THEN [w |-> w, rest |-> <<>>, suspended |-> FALSE, ok |-> TRUE]
    ELSE LET part == Head(parts)
             audio == /\ part.inlineData
                      /\ IsAudio(part.mimeType)
                      /\ w.g.audio_callback
                      /\ part.data # <<>>
             text == w.g.transcript_callback /\ part.text # ""
         IN  IF audio /\ B64Invalid(part.data)
             THEN [w |-> w, rest |-> <<>>, suspended |-> FALSE, ok |-> FALSE]
             ELSE IF audio
             THEN LET r == handle_gemini_audio_enter(
                              Emit(w, "audio_callback", from_base64(part.data)),
                              from_base64(part.data))
                  IN  IF r.suspended
                      THEN [w |-> r.w, suspended |-> TRUE, ok |-> TRUE,
                            rest |-> <<[part EXCEPT !.inlineData = FALSE]>> \o Tail(parts)]
                      ELSE PartsUntilSuspension(
                              IF text THEN Emit(r.w, "transcript_callback", part.text)
                              ELSE r.w, Tail(parts))
             ELSE PartsUntilSuspension(
                     IF text THEN Emit(w, "transcript_callback", part.text) ELSE w,
                     Tail(parts))

\* the invocations of a callback among the calls of one step
Invocations(out, callback) == Len(SelectSeq(out, LAMBDA e : e[1] = callback))

TaskTelephony == {StartS1} \cup {Media(b64encode(f)) : f \in InFrames}

TaskModel ==
    {[GMsg EXCEPT !.serverContent = TRUE, !.modelTurn = TRUE, !.parts = ps] :
        ps \in {<<AudioPart(Pcm24k)>>, <<AudioPart(Pcm24k), AudioPart(Pcm24kB)>>,
                <<AudioPart(PcmOdd)>>}}
    \cup {[GMsg EXCEPT !.serverContent = TRUE, !.turnComplete = TRUE]}

TkAccept == RxAccept({FALSE})

\* session.py:54-76: one message read by the telephony loop; the callback does
\* all its updates before it is suspended in ws.send (orchestrator.py:79-91)
TkTelephony ==
    /\ pc["endpoint"] = "handle_events"
    /\ websocket.state = "open"
    /\ \E message \in TaskTelephony :
          /\ CountsAsReceived(message) => smartflo_session.audio_chunks_received < MaxFwd
          /\ LET w == handle_events_body(World, message)
             IN  /\ Commit(w)
                 /\ hist' = [hist EXCEPT !.op = "telephony",
                        !.started_in = @ + Invocations(w.out, "on_audio_callback")]
    /\ UNCHANGED <<pc, cancel, stops>>

\* the model loop from state w with the parts left, up to its next suspension
\* or to the end of the message (client.py:173-224)
ModelLoopRuns(w, message, parts, op) ==
    LET r == PartsUntilSuspension(w, parts)
        w2 == IF r.suspended \/ ~r.ok THEN r.w
              ELSE HandleInterrupted(HandleTurnComplete(r.w, message), message)
    IN  /\ Commit(w2)
        /\ pc' = [pc EXCEPT !["t2"] = IF r.suspended THEN "send_text" ELSE "recv"]
        /\ hist' = [hist EXCEPT !.op = op, !.msg = message, !.parts = r.rest,
                        !.started_out = @ + Invocations(w2.out, "audio_callback")]

\* client.py:144-183: the model loop reads a message
TkModelRecv ==
    /\ pc["t2"] = "recv"
    /\ ws.state = "open"
    /\ \E message \in TaskModel :
          /\ orch.audio_out_count + NumAudio(message) <= MaxFwd
          /\ ModelLoopRuns(IF message.modelTurn THEN bot_starts(World) ELSE World,
                           message, IF message.modelTurn THEN message.parts ELSE <<>>,
                           "model")
    /\ UNCHANGED <<cancel, stops>>

\* session.py:167-168, client.py:183-224: send_text returned to the model loop
TkModelResume ==
    /\ pc["t2"] = "send_text"
    /\ ModelLoopRuns(send_audio_return(World), hist.msg, hist.parts, "model_resume")
    /\ UNCHANGED <<cancel, stops>>

\* the caller hangs up while the model loop may be suspended
TkTelephonyClosed == RxTelephonyClosed

TaskNext ==
    \/ TkAccept
    \/ RxConnect
    \/ TkTelephony
    \/ TkTelephonyClosed
    \/ TkModelRecv
    \/ TkModelResume
    \/ _forward_smartflo_to_gemini
    \/ _health_check

TaskSpec == Init /\ [][TaskNext]_vars

-----------------------------------------------------------------------------
(* The model client driven alone: connect() step by step, send_audio_chunk   *)
(* called by any other coroutine at any time, the peer closing, close().     *)
(* connect() can be suspended in websockets.connect (client.py:47) and in    *)
(* the drain of ws.send (client.py:98), which has written the frame before   *)
(* it first yields; between the two it runs without suspension.              *)

CliChunks == {smartflo_to_gemini(f).data : f \in FwdFrames}

\* client.py:47-57, 98: websockets.connect returns or raises
CliConnectOpen ==
    /\ pc["stream"] = "none"
    /\ \E opened \in BOOLEAN :
          IF opened
          THEN /\ Commit(connect_ok(World))
               /\ pc' = [pc EXCEPT !["stream"] = "send_config"]
          ELSE /\ Commit(connect_failed(World))
               /\ pc' = [pc EXCEPT !["stream"] = "done"]
    /\ hist' = [hist EXCEPT !.op = "connect"]
    /\ UNCHANGED <<cancel, stops>>

\* client.py:57-62, 98-99: ws.send returns, or raises on a connection lost meanwhile
CliConnectReturn ==
    /\ pc["stream"] = "send_config"
    /\ IF ws.state = "open"
       THEN UNCHANGED <<smartflo_session, websocket, gemini_client, ws, orch>>
       ELSE Commit([send_config_failed(World) EXCEPT !.m.state = ws.state])
    /\ pc' = [pc EXCEPT !["stream"] = "done"]
    /\ hist' = [hist EXCEPT !.op = "connect_return"]
    /\ UNCHANGED <<cancel, stops>>

\* client.py:101-133, called with any chunk
CliSendAudioChunk ==
    /\ Len(ws.sent) <= MaxSends
    /\ \E pcm_data \in CliChunks : Commit(send_audio_chunk(World, pcm_data))
    /\ hist' = [hist EXCEPT !.op = "send_audio_chunk"]
    /\ UNCHANGED <<pc, cancel, stops>>

\* the model peer drops the connection
CliPeerClose ==
    /\ ws.state = "open"
    /\ \E how \in {"closed_ok", "closed_error"} : ws' = [ws EXCEPT !.state = how]
    /\ hist' = [hist EXCEPT !.op = "peer_close"]
    /\ UNCHANGED <<smartflo_session, websocket, gemini_client, orch, pc, cancel, stops>>

\* client.py:247-252: close() called by another coroutine, and its return
CliClose ==
    /\ \/ /\ pc["t1"] = "none"
          /\ IF gemini_client.has_ws
             THEN /\ Commit(ws_close(World))
                  /\ pc' = [pc EXCEPT !["t1"] = "close"]
             ELSE /\ pc' = [pc EXCEPT !["t1"] = "done"]
                  /\ UNCHANGED <<smartflo_session, websocket, gemini_client, ws, orch>>
       \/ /\ pc["t1"] = "close"
          /\ Commit(gemini_close_done(World))
          /\ pc' = [pc EXCEPT !["t1"] = "done"]
    /\ hist' = [hist EXCEPT !.op = "close"]
    /\ UNCHANGED <<cancel, stops>>

ClientNext ==
    \/ CliConnectOpen
    \/ CliConnectReturn
    \/ CliSendAudioChunk
    \/ CliPeerClose
    \/ CliClose

ClientSpec == Init /\ [][ClientNext]_vars

-----------------------------------------------------------------------------
(* AudioConverter called on its own: the input is any byte string up to     *)
(* MaxPcmLen bytes, kept in hist.frame; the result of the call is kept in   *)
(* hist.out.                                                                *)

PcmBytes == {0, 16, 39, 255}

PcmInputs == UNION {[1..n -> PcmBytes] : n \in 0..MaxPcmLen}

ConvInit ==
    /\ smartflo_session = SessionInit
    /\ websocket = SocketInit
    /\ gemini_client = ClientInit
    /\ ws = [state |-> "unopened", sent |-> <<>>]
    /\ orch = OrchInit
    /\ pc = [endpoint |-> "accept", stream |-> "none", t1 |-> "none", t2 |-> "none",
             t3 |-> "none"]
    /\ cancel = {}
    /\ stops = [S |-> "idle", E |-> "idle"]
    /\ \E pcm_data \in PcmInputs :
          hist = [events |-> <<>>, cancelled |-> FALSE, op |-> "input", frame |-> pcm_data,
                  wrote |-> FALSE, msg |-> TMsg(""), out |-> <<>>, wire_in |-> <<>>,
                  model_in |-> <<>>, calls |-> <<>>,
               started_in |-> 0, started_out |-> 0, parts |-> <<>>]

\* converter.py:43
ConvEncode ==
    /\ hist.op = "input"
    /\ hist' = [hist EXCEPT !.op = "pcm16_to_ulaw",
                            !.out = <<<<"pcm16_to_ulaw", pcm16_to_ulaw(hist.frame)>>>>]
    /\ UNCHANGED <<smartflo_session, websocket, gemini_client, ws, orch, pc, cancel, stops>>

ConvNext == ConvEncode

ConvSpec == ConvInit /\ [][ConvNext]_vars

-----------------------------------------------------------------------------
(* Properties of send_audio, checked on the session driven alone (TelSpec)  *)

Streaming == smartflo_session.connected /\ ~Falsy(smartflo_session.stream_sid)

LastSent == websocket.sent[Len(websocket.sent)]

\* C7: every media message written to the telephony socket by send_audio
\* carries a payload that decodes, and whose decoded length is a multiple of
\* 160 bytes, whatever the length of the frame passed in and whatever was
\* sent before: each step leaves the messages already written as they are,
\* and each message it writes is such a message.
C7_PayloadMultipleOf160 ==
    [][/\ Len(websocket'.sent) >= Len(websocket.sent)
       /\ SubSeq(websocket'.sent, 1, Len(websocket.sent)) = websocket.sent
       /\ \A i \in (Len(websocket.sent) + 1)..Len(websocket'.sent) :
             /\ websocket'.sent[i].event = "media"
             /\ ~B64Invalid(websocket'.sent[i].payload)
             /\ Len(b64decode(websocket'.sent[i].payload)) % FrameSize = 0]_vars

\* a second frame was written, for an input that is no multiple of 160 bytes
C7_Witness ==
    /\ hist.op = "send_audio" /\ hist.wrote
    /\ Len(hist.frame) % FrameSize # 0
    /\ Len(websocket.sent) >= 2

\* C8: the payload written for a frame of n bytes is the smallest multiple of
\* 160 that is >= n bytes long, starts with the n bytes of the frame and
\* continues with the silence value 0xFF only; a frame whose length is a
\* multiple of 160 is sent unmodified.
C8_PaddedWithSilence ==
    (hist.op = "send_audio" /\ hist.wrote) =>
        LET out == b64decode(LastSent.payload)
            n == Len(hist.frame)
        IN  /\ Len(out) = ((n + FrameSize - 1) \div FrameSize) * FrameSize
            /\ \A i \in 1..Len(out) :
                   out[i] = IF i <= n THEN hist.frame[i] ELSE SilenceByte
            /\ (n % FrameSize = 0 => out = hist.frame)

\* a frame one byte short of a full wire frame was written
C8_Witness ==
    /\ hist.op = "send_audio" /\ hist.wrote
    /\ Len(hist.frame) = FrameSize - 1
    /\ Len(b64decode(LastSent.payload)) = FrameSize

\* C9: a call of send_audio outside the Streaming state writes nothing and
\* leaves the session unchanged; in the Streaming state it writes one message
\* and adds one to audio_chunks_sent, or, when the write fails, changes nothing.
C9_NoOpUnlessStreaming ==
    [][hist'.op = "send_audio" =>
         /\ ~Streaming => (websocket' = websocket /\ smartflo_session' = smartflo_session)
         /\ Streaming =>
              \/ /\ websocket.state = "open"
                 /\ Len(websocket'.sent) = Len(websocket.sent) + 1
                 /\ smartflo_session' = [smartflo_session EXCEPT !.audio_chunks_sent = @ + 1]
              \/ /\ websocket.state # "open"
                 /\ websocket' = websocket /\ smartflo_session' = smartflo_session]_vars

\* send_audio was called after a stop event ended a session that had streamed:
\* nothing more was written
C9_Witness ==
    /\ hist.op = "send_audio" /\ ~hist.wrote
    /\ ~smartflo_session.connected
    /\ smartflo_session.stream_sid = "S1"
    /\ websocket.state = "open"
    /\ smartflo_session.audio_chunks_sent = 1


-----------------------------------------------------------------------------
(* Properties of the call's life cycle (Spec, FairSpec)                     *)

Has(c, what) == \E i \in 1..Len(hist.events) : hist.events[i] = <<c, what>>

At(c, what) == CHOOSE i \in 1..Len(hist.events) : hist.events[i] = <<c, what>>

StopReturned == \E c \in {"S", "E"} : stops[c] = "returned"

\* C1: once the model receive task has ended because the model connection was
\* closed, stop() is eventually executed, running becomes False and the
\* telephony session is closed, with no further event from outside.
C1_ModelDropEndsCall ==
    Has("t2", "connection_closed")
        ~> (StopReturned /\ ~orch.running /\ ~smartflo_session.connected)

\* C2: once handle_events has returned (stop event or closed telephony socket),
\* stop() is eventually executed and the model socket is eventually closed,
\* even if the model peer never closes its connection.
C2_TelephonyEndTearsDown ==
    (pc["endpoint"] = "await_stream") ~> (StopReturned /\ ws.state # "open")

\* C3: start() never returns without having called stop(): after a failed
\* connect(), after the gather of the three tasks returned (tasks ended or
\* caught their own exceptions), and when start() itself was cancelled.
C3_StartReturnsAfterStop ==
    pc["stream"] = "done" =>
        /\ Has("S", "running_false")
        /\ stops["S"] \in {"returned", "aborted"}

\* start() was cancelled while it gathered its three tasks (the endpoint was
\* cancelled at `await stream_task`, its own stop() has not begun), and has
\* returned through its finally clause
C3_Witness ==
    /\ pc["stream"] = "done"
    /\ hist.cancelled
    /\ orch.tasks = Tasks
    /\ stops["S"] = "returned"
    /\ stops["E"] = "idle"

\* C4: at the moment a call of stop() returns, each of the orchestrator's
\* tasks is done (so the model read loop is no longer blocked on its socket).
C4_StopReturnsAfterTasks ==
    [][\A c \in {"S", "E"} :
          (stops[c] # "returned" /\ stops'[c] = "returned")
              => \A t \in orch'.tasks : pc'[t] = "done"]_vars

Stopped ==
    /\ ~orch.running
    /\ ~gemini_client.connected /\ ws.state # "open"
    /\ ~smartflo_session.connected

\* C5: when stop() has been called twice, from start()'s finally clause and
\* from the endpoint's, one after the other or overlapping, both calls return
\* into the state one call leaves: running False, model session closed,
\* telephony session not connected.
C5_StopIdempotent ==
    (stops["S"] = "returned" /\ stops["E"] = "returned") => Stopped

\* the endpoint's stop() began while the stop() of start() was suspended in a
\* close, and both have returned
C5_Witness ==
    /\ stops["S"] = "returned" /\ stops["E"] = "returned"
    /\ At("S", "running_false") < At("E", "running_false")
    /\ At("E", "running_false") < At("S", "returned")

StopStep(what) ==
    CASE what = "running_false" -> 1
      [] what = "tasks_cancelled" -> 2
      [] what = "model_closed" -> 3
      [] what = "telephony_close" -> 4
      [] what = "returned" -> 5
      [] OTHER -> 0

\* C6: each call of stop() clears running, then cancels the pending tasks,
\* then closes the model session, and only then closes the telephony session:
\* while stop() is closing the telephony socket, running is False and the
\* model session's close has completed.
C6_StopOrder ==
    /\ \A i, j \in 1..Len(hist.events) :
          (i < j /\ hist.events[i][1] = hist.events[j][1] /\ hist.events[i][1] \in {"S", "E"})
              => StopStep(hist.events[i][2]) < StopStep(hist.events[j][2])
    /\ \A c \in {"S", "E"} :
          /\ Has(c, "telephony_close") =>
                Has(c, "running_false") /\ Has(c, "tasks_cancelled") /\ Has(c, "model_closed")
          /\ stops[c] = "session_close" =>
                ~orch.running /\ ~gemini_client.connected /\ ws.state # "open"

\* a stop() that closed a model socket and then the open telephony socket
C6_Witness ==
    /\ Has("S", "telephony_close") /\ stops["S"] = "returned"
    /\ gemini_client.has_ws
    /\ websocket.state = "closed"

\* C10: at most one of user_speaking and bot_speaking is true.
C10_OneTurnPhase == ~(gemini_client.user_speaking /\ gemini_client.bot_speaking)

-----------------------------------------------------------------------------
(* Properties of the two read loops (BridgeSpec, OrderSpec)                 *)

\* the step handled a serverContent message of the model
ModelStep == hist'.op = "model" /\ hist'.msg.json /\ hist'.msg.serverContent

\* the calls of the vad callback made by the last step
VadCalls == SelectSeq(hist.out, LAMBDA e : e[1] = "vad_callback")

\* C11: after the handling of a model message with interrupted = true,
\* user_speaking is true and bot_speaking is false, whatever the flags were
\* before and whatever else the message carries.
C11_InterruptedForcesUserSpeaking ==
    [][(ModelStep /\ hist'.msg.interrupted)
          => (gemini_client'.user_speaking /\ ~gemini_client'.bot_speaking)]_vars

\* number of calls of the vad callback with the given signal in the last step
VadCount(signal) ==
    Cardinality({i \in 1..Len(hist.out) : hist.out[i] = <<"vad_callback", signal>>})

\* C12: after the handling of a model message with turnComplete = true and no
\* interrupted flag (here: one that carries no modelTurn either), neither
\* user_speaking nor bot_speaking is true, and a registered vad callback has
\* been called with "turn_complete" exactly once.
C12_TurnCompleteIdle ==
    [][(ModelStep /\ hist'.msg.turnComplete /\ ~hist'.msg.interrupted /\ ~hist'.msg.modelTurn)
          => /\ ~gemini_client'.user_speaking /\ ~gemini_client'.bot_speaking
             /\ gemini_client.vad_callback => VadCount("turn_complete")' = 1]_vars

\* the message of the step is a modelTurn none of whose parts carries inline data
NoAudioTurn == hist'.msg.modelTurn /\ AudioOf(hist'.msg.parts) = <<>>

\* C13: a modelTurn message without an audio part (text only, or no parts)
\* does not set bot_speaking, and calls the vad callback with "user_stopped"
\* neither; a message handled while bot_speaking is already true makes no
\* further "user_stopped" call.
C13_BotSpeakingOnFirstAudio ==
    [][ModelStep =>
          /\ (NoAudioTurn /\ ~gemini_client.bot_speaking /\ ~hist'.msg.interrupted)
                => (~gemini_client'.bot_speaking /\ VadCount("user_stopped")' = 0)
          /\ gemini_client.bot_speaking => VadCount("user_stopped")' = 0]_vars

\* C14: for a model message with interrupted = true (here: one that carries
\* nothing else), a registered vad callback is called with "interrupted" once
\* and then with "turn_complete" once, and with nothing else.
C14_InterruptedSignals ==
    [][(ModelStep /\ hist'.msg.interrupted /\ ~hist'.msg.modelTurn /\ ~hist'.msg.turnComplete
          /\ gemini_client.vad_callback)
          => VadCalls' = <<<<"vad_callback", "interrupted">>, <<"vad_callback", "turn_complete">>>>]_vars

\* the number of "user started speaking" marks written during the last step
UserStarted ==
    Cardinality({i \in 1..Len(hist.out) : hist.out[i] = <<"log", "user_started">>})

\* a step of the telephony loop that handed a chunk to send_audio_chunk on a
\* connected client (session.py:117-123, orchestrator.py:82-93, client.py:107)
ChunkStep ==
    /\ hist'.op = "telephony"
    /\ CountsAsReceived(hist'.msg)
    /\ smartflo_session.on_audio_callback
    /\ gemini_client.connected /\ gemini_client.has_ws

RECURSIVE IsSubSeq(_, _)
IsSubSeq(a, b) ==
    IF a = <<>> THEN TRUE
    ELSE IF b = <<>> THEN FALSE
    ELSE IF Head(a) = Head(b) THEN IsSubSeq(Tail(a), Tail(b))
    ELSE IsSubSeq(a, Tail(b))

RECURSIVE Flatten(_)
Flatten(seqs) == IF seqs = <<>> THEN <<>> ELSE Head(seqs) \o Flatten(Tail(seqs))

\* the audio messages written to the model socket, in the order of the socket
ModelAudioSent == SelectSeq(ws.sent, LAMBDA m : m.kind = "realtime_input")

\* the payloads written to the telephony socket, in the order of the socket
TelephonyPayloads == [i \in 1..Len(websocket.sent) |-> websocket.sent[i].payload]

\* the message that forwards one telephony frame (orchestrator.py:82-93,
\* client.py:118-125)
ForwardOfFrame(payload) ==
    RealtimeInput(to_base64(smartflo_to_gemini(b64decode(payload)).data))

\* the payload that forwards one audio part of the model (client.py:181-183,
\* orchestrator.py:104-112, session.py:152-157)
ForwardOfPart(data) ==
    b64encode(PadFrame(gemini_to_smartflo(from_base64(data), 24000).data))

ModelItems == Flatten(hist.model_in)

ModelAudioIn == SelectSeq(ModelItems, LAMBDA item : item[1] = "audio")

\* the item of a model message that a call of the model loop answers
Causes(call, item) ==
    \/ call[1] = "audio_callback" /\ item[1] = "audio" /\ from_base64(item[2]) = call[2]
    \/ /\ call[1] = "vad_callback"
       /\ \/ call[2] = "user_stopped" /\ item[1] = "modelTurn"
          \/ call[2] = "turn_complete" /\ item[1] \in {"turnComplete", "interrupted"}
          \/ call[2] = "interrupted" /\ item[1] = "interrupted"

\* every call answers an item, and the calls follow the order of the items
RECURSIVE InOrderOf(_, _)
InOrderOf(calls, items) ==
    IF calls = <<>> THEN TRUE
    ELSE IF items = <<>> THEN FALSE
    ELSE IF Causes(Head(calls), Head(items)) THEN InOrderOf(Tail(calls), items)
    ELSE InOrderOf(calls, Tail(items))

\* C16: forwarding keeps the order in both directions, one message per frame:
\* the audio messages on the model socket are, in order, forwards of a
\* subsequence of the media frames that arrived on the telephony socket; the
\* payloads on the telephony socket are, in order, forwards of a subsequence
\* of the audio parts the model sent; and the audio and signal callbacks of the
\* model loop are called in the order of the parts and flags they answer.
C16_ForwardingKeepsOrder ==
    /\ IsSubSeq(ModelAudioSent,
                [i \in 1..Len(hist.wire_in) |-> ForwardOfFrame(hist.wire_in[i])])
    /\ IsSubSeq(TelephonyPayloads,
                [i \in 1..Len(ModelAudioIn) |-> ForwardOfPart(ModelAudioIn[i][2])])
    /\ InOrderOf(hist.calls, ModelItems)

\* two different frames were forwarded in each direction, and the signals of
\* an interruption were delivered before the audio of the next model turn
C16_Witness ==
    /\ Len(ModelAudioSent) = 2 /\ ModelAudioSent[1] # ModelAudioSent[2]
    /\ Len(TelephonyPayloads) = 2 /\ TelephonyPayloads[1] # TelephonyPayloads[2]
    /\ \E i, j \in 1..Len(hist.calls) :
          /\ i < j
          /\ hist.calls[i] = <<"vad_callback", "interrupted">>
          /\ hist.calls[j][1] = "audio_callback"

\* a telephony message that session.py:54-76 and 104-125 cannot use:
\* malformed JSON, an event tag that is none of the four handled ones, a
\* media event whose payload is missing, empty or not decodable
Unusable(message) ==
    \/ ~message.json
    \/ message.event \notin {"connected", "start", "media", "stop"}
    \/ /\ message.event = "media"
       /\ ~message.has_payload \/ message.payload = <<>> \/ B64Invalid(message.payload)

\* the step that handled the message changed nothing and called nothing
NothingDone ==
    /\ smartflo_session' = smartflo_session
    /\ gemini_client' = gemini_client
    /\ orch' = orch
    /\ websocket' = websocket
    /\ ws' = ws
    /\ hist'.out = <<>>

\* C17: a malformed-JSON message, a message with an unknown event tag or a
\* media message whose payload is missing or undecodable on the telephony
\* socket, and a malformed-JSON message on the model socket, leave the
\* counters, the identifiers and the speaking flags as they were, invoke no
\* callback, and leave the read loop running on its open socket.
C17_BadMessageIgnored ==
    [][/\ (hist'.op = "telephony" /\ Unusable(hist'.msg))
             => /\ NothingDone
                /\ pc'["endpoint"] = "handle_events"
                /\ smartflo_session'.connected /\ websocket'.state = "open"
       /\ (hist'.op = "model" /\ ~hist'.msg.json)
             => /\ NothingDone
                /\ pc'["t2"] = "recv"
                /\ ws'.state = "open"]_vars

\* an undecodable media payload arrived in the middle of a call: a frame had
\* been received and forwarded before it, and the loop is still reading
C17_Witness ==
    /\ hist.op = "telephony"
    /\ hist.msg.json /\ hist.msg.event = "media" /\ hist.msg.has_payload
    /\ B64Invalid(hist.msg.payload)
    /\ smartflo_session.audio_chunks_received = 1
    /\ smartflo_session.stream_sid = "S1"
    /\ Len(ws.sent) = 2
    /\ gemini_client.user_speaking
    /\ pc["endpoint"] = "handle_events" /\ pc["t2"] = "recv"

\* C18: when the telephony loop processes a stop event it invokes the stop
\* callback if one is registered, the session is no longer connected and the
\* loop has returned, so that no later message is read, also when the stop
\* callback raises.
C18_StopEndsLoop ==
    [][(hist'.op = "telephony" /\ IsStop(hist'.msg))
          => /\ smartflo_session.on_stop_callback
                   => hist'.out = <<<<"on_stop_callback", None>>>>
             /\ ~smartflo_session'.connected
             /\ pc'["endpoint"] = "done"]_vars

\* C19: stream_sid and call_sid are set once, by the first start event: once a
\* start event has set stream_sid, no later step (a second start event with
\* other or missing identifiers included) changes stream_sid or call_sid.
C19_IdentifiersSetOnce ==
    [][~Falsy(smartflo_session.stream_sid)
          => /\ smartflo_session'.stream_sid = smartflo_session.stream_sid
             /\ smartflo_session'.call_sid = smartflo_session.call_sid]_vars

\* C20: when close() returns on a session whose socket was accepted, the
\* telephony socket is closed and the session is not connected, also when the
\* read loop had already ended on a stop event or a socket error.
C20_CloseClosesSocket ==
    [][(hist'.op = "close" /\ pc'["stream"] = "done" /\ websocket.state = "open")
          => (websocket'.state = "closed" /\ ~smartflo_session'.connected)]_vars

-----------------------------------------------------------------------------
(* Properties of the model session and of the orchestrator's bookkeeping    *)

\* the step in which receive_events leaves its loop because the model socket
\* is closed (client.py:144, 239-241)
ReceiveLoopExit ==
    /\ pc["t2"] = "recv" /\ pc'["t2"] = "done"
    /\ Len(hist'.events) = Len(hist.events) + 1
    /\ hist'.events[Len(hist'.events)] = <<"t2", "connection_closed">>

\* C21: when the model socket is closed, by the peer or by close(), the read
\* loop receive_events exits and the client is no longer connected.
C21_ClosedSocketDisconnects ==
    [][ReceiveLoopExit => ~gemini_client'.connected]_vars

\* start() has left connect() through the except clause: it is in stop() or
\* has returned and never created its tasks (orchestrator.py:47, 66-69)
ConnectFailed ==
    /\ pc["stream"] \in {"stop", "done"}
    /\ orch.tasks = {}
    /\ ~hist.cancelled

\* C22: when the model socket cannot be opened or the setup message cannot be
\* sent, connect() leaves the client not connected and nothing written to the
\* model socket, and start() registers no callback, starts no task, leaves
\* running False and, once its stop() has returned, the telephony session is
\* not connected.
C22_FailedConnect ==
    ConnectFailed =>
        /\ ~gemini_client.connected
        /\ ws.state \in {"unopened", "closed_error"} /\ ws.sent = <<>>
        /\ ~orch.running
        /\ ~smartflo_session.on_audio_callback
        /\ ~gemini_client.audio_callback /\ ~gemini_client.transcript_callback
        /\ \A t \in Tasks : pc[t] = "none"
        /\ pc["stream"] = "done"
              => (stops["S"] = "returned" /\ ~smartflo_session.connected)

\* the setup message could not be sent, start() has returned, and its stop()
\* closed the telephony socket while the read loop was still running
C22_Witness ==
    /\ ConnectFailed
    /\ pc["stream"] = "done"
    /\ ws.state = "closed_error"
    /\ websocket.state = "closed"
    /\ <<"S", "telephony_close">> \in {hist.events[i] : i \in 1..Len(hist.events)}

\* the setup messages written to the model socket
SetupsSent == SelectSeq(ws.sent, LAMBDA m : m.kind = "setup")

\* C23: on the model socket the setup message is written once and first: a
\* socket on which anything was written starts with the setup message,
\* followed by audio messages only, whenever send_audio_chunk is called
\* during or after connect().
C23_SetupFirstAndOnce ==
    /\ ws.sent # <<>> => ws.sent[1] = SetupMessage
    /\ Len(SetupsSent) <= 1
    /\ gemini_client.has_ws => Len(SetupsSent) = 1

\* a chunk was sent while connect() was still in ws.send of the setup
\* message, and it follows the setup message on the socket
C23_Witness ==
    /\ pc["stream"] = "send_config"
    /\ hist.op = "send_audio_chunk"
    /\ Len(ws.sent) = 2
    /\ ws.sent[1].kind = "setup" /\ ws.sent[2].kind = "realtime_input"

-----------------------------------------------------------------------------
(* Properties of AudioConverter (ConvSpec)                                  *)

\* the result of the conversion applied to hist.frame
Result == hist.out[1][2]

\* C24: pcm16_to_ulaw accepts only inputs of even length: on an input of odd
\* length it raises and returns no bytes, on an input of n bytes, n even, it
\* returns exactly n/2 bytes.
C24_EncodeNeedsEvenLength ==
    hist.op = "pcm16_to_ulaw" =>
        IF Len(hist.frame) % 2 = 1
        THEN ~Result.ok /\ Result.data = <<>>
        ELSE Result.ok /\ Len(Result.data) = Len(hist.frame) \div 2

\* an input of three bytes was refused
C24_Witness ==
    /\ hist.op = "pcm16_to_ulaw"
    /\ Len(hist.frame) = 3
    /\ ~Result.ok

\* a step of the telephony loop that called the orchestrator's audio callback
\* (session.py:117-123)
InboundStep ==
    /\ hist'.op = "telephony"
    /\ CountsAsReceived(hist'.msg)
    /\ smartflo_session.on_audio_callback

\* a step of the model loop whose message starts with a well-formed audio part
\* while the telephony session can send (client.py:173-183, session.py:147)
OutboundStep ==
    /\ hist'.op = "model"
    /\ hist'.msg.json /\ hist'.msg.serverContent /\ hist'.msg.modelTurn
    /\ hist'.msg.parts # <<>> /\ hist'.msg.parts[1] = AudioPart(Pcm24k)
    /\ gemini_client.audio_callback
    /\ Streaming /\ websocket.state = "open"

LatencyRecord == ~orch.response_start_time /\ orch'.response_start_time

\* a step of the model loop that called the orchestrator's audio callback
ModelAudioStep == hist'.op = "model" /\ orch'.audio_out_count > orch.audio_out_count

\* C26: a response latency is logged on the first audio chunk of each bot
\* response and only then: a model message whose audio reaches the
\* orchestrator produces a latency record exactly when it opens a bot turn
\* (bot_speaking was not set), whatever telephony frames arrived in between.
C26_OneLatencyPerResponse ==
    [][ModelAudioStep => (LatencyRecord <=> ~gemini_client.bot_speaking)]_vars

-----------------------------------------------------------------------------
(* Properties of the tasks between their suspension points (TaskSpec)       *)

\* C27: no update of the shared counters is lost in any interleaving of the
\* telephony loop, the model loop suspended in send_text, the liveness task
\* and the health task: audio_in_count is the number of invocations of the
\* telephony audio callback, audio_out_count the number of invocations of the
\* model audio callback, and audio_chunks_sent the number of frames written
\* to the telephony socket, less the one whose send_text has not returned
\* or has raised.
C27_NoLostUpdate ==
    /\ orch.audio_in_count = hist.started_in
    /\ orch.audio_out_count = hist.started_out
    /\ Len(websocket.sent) - smartflo_session.audio_chunks_sent \in {0, 1}
    /\ pc["t2"] = "send_text"
          => Len(websocket.sent) = smartflo_session.audio_chunks_sent + 1

\* the model loop is suspended in send_text for its second chunk while the
\* telephony loop handled its second frame, which cleared the response tracking
C27_Witness ==
    /\ pc["t2"] = "send_text"
    /\ hist.op = "telephony"
    /\ hist.started_in = 2 /\ orch.audio_in_count = 2
    /\ hist.started_out = 2 /\ orch.audio_out_count = 2
    /\ smartflo_session.audio_chunks_sent = 1
    /\ ~orch.response_start_time

\* C28: audio_in_count never exceeds audio_chunks_received.  A media frame
\* that arrives before the orchestrator registered its audio callback is
\* counted by the session only and nothing is written to the model socket,
\* then or later; a frame that arrives afterwards is counted by both and is
\* written to the model socket at most once, in the step that received it.
C28_InboundCounts ==
    /\ [](orch.audio_in_count <= smartflo_session.audio_chunks_received)
    /\ [][/\ (hist'.op = "telephony" /\ CountsAsReceived(hist'.msg))
                => /\ smartflo_session'.audio_chunks_received
                         = smartflo_session.audio_chunks_received + 1
                   /\ IF smartflo_session.on_audio_callback
                      THEN /\ orch'.audio_in_count = orch.audio_in_count + 1
                           /\ ws'.sent \in {ws.sent,
                                 Append(ws.sent, ForwardOfFrame(hist'.msg.payload))}
                      ELSE /\ orch'.audio_in_count = orch.audio_in_count
                           /\ ws'.sent = ws.sent
          /\ ~(hist'.op = "telephony" /\ CountsAsReceived(hist'.msg))
                => /\ orch'.audio_in_count = orch.audio_in_count
                   /\ ModelAudioSent' = ModelAudioSent]_vars

\* the first frame arrived before the callback was registered and was
\* dropped, the second was forwarded
C28_Witness ==
    /\ hist.op = "telephony"
    /\ smartflo_session.audio_chunks_received = 2
    /\ orch.audio_in_count = 1
    /\ Len(ModelAudioSent) = 1

\* the calls of the model loop added to the record by the last step
NewCalls == SubSeq(hist'.calls, Len(hist.calls) + 1, Len(hist'.calls))

\* C29: audio_chunks_sent never exceeds audio_out_count.  A model audio chunk
\* that arrives while the telephony session cannot send (no start event yet,
\* or the session stopped) is counted by the orchestrator and nothing is
\* written to the telephony socket, then or later: a model step writes at
\* most one frame per chunk it counts, and no other step writes a frame or
\* changes audio_chunks_sent.
C29_OutboundCounts ==
    /\ [](/\ smartflo_session.audio_chunks_sent <= orch.audio_out_count
          /\ Len(websocket.sent) = smartflo_session.audio_chunks_sent)
    /\ [][/\ hist'.op = "model"
                => /\ orch'.audio_out_count - orch.audio_out_count
                         = Invocations(NewCalls, "audio_callback")
                   /\ IF Streaming /\ websocket.state = "open"
                      THEN Len(websocket'.sent) - Len(websocket.sent)
                              <= orch'.audio_out_count - orch.audio_out_count
                      ELSE websocket'.sent = websocket.sent
          /\ hist'.op # "model"
                => /\ websocket'.sent = websocket.sent
                   /\ orch'.audio_out_count = orch.audio_out_count
                   /\ smartflo_session'.audio_chunks_sent
                         = smartflo_session.audio_chunks_sent]_vars

\* two model messages of one chunk each arrived, the first before the start
\* event: both are counted, and only the second was written, after the start
C29_Witness ==
    /\ Streaming
    /\ orch.audio_out_count = 2
    /\ smartflo_session.audio_chunks_sent = 1
    /\ Len(hist.model_in) = 2
    /\ Len(ModelAudioIn) = 2
    /\ TelephonyPayloads = <<ForwardOfPart(ModelAudioIn[2][2])>>

\* the last start event that the telephony loop processed, if any
LastStart == hist.msg

\* the stream identifiers a start event carries: at the top level and inside
\* its start object (session.py:90-91)
CarriedBy(message) ==
    IF message.event = "start"
    THEN {message.streamSid, message.start_streamSid} \ {None, ""}
    ELSE {}

\* C30: no outbound media message has a null or empty streamSid: a message
\* written by send_audio carries a stream identifier of the last start event
\* processed, the one the session holds; when that event carried none (or no
\* start event was processed) send_audio writes nothing; and nothing but
\* send_audio writes to the telephony socket.
C30_OutboundStreamSid ==
    /\ [](\A i \in 1..Len(websocket.sent) : ~Falsy(websocket.sent[i].streamSid))
    /\ [][/\ hist'.op = "send_audio"
                => /\ CarriedBy(LastStart) = {} => websocket'.sent = websocket.sent
                   /\ websocket'.sent # websocket.sent
                         => /\ Len(websocket'.sent) = Len(websocket.sent) + 1
                            /\ SubSeq(websocket'.sent, 1, Len(websocket.sent)) = websocket.sent
                            /\ LET m == websocket'.sent[Len(websocket'.sent)]
                               IN  /\ m.event = "media"
                                   /\ m.streamSid \in CarriedBy(LastStart)
                                   /\ m.streamSid = smartflo_session.stream_sid
          /\ hist'.op # "send_audio" => websocket'.sent = websocket.sent]_vars

\* a frame was written under S1, a second start event replaced the identifier,
\* and the next frame was written under S2
C30_Witness ==
    /\ hist.op = "send_audio" /\ hist.wrote
    /\ Len(websocket.sent) = 2
    /\ websocket.sent[1].streamSid = "S1"
    /\ websocket.sent[2].streamSid = "S2"
    /\ LastStart.streamSid = "S2"

\* the items of the model message handled by the last step
LastItems == hist'.model_in[Len(hist'.model_in)]

IsAudioItem(item) == item[1] = "audio"

\* an audio part whose decoded PCM is no whole number of 16-bit samples
OddItem(item) == IsAudioItem(item) /\ Len(from_base64(item[2])) % 2 = 1

HasItem(items, kind) == \E i \in 1..Len(items) : items[i][1] = kind

\* the frames written to the telephony socket by the last step
NewFrames == SubSeq(websocket'.sent, Len(websocket.sent) + 1, Len(websocket'.sent))

\* C31: a model message with an audio part of odd decoded length: no frame is
\* written for that part and audio_chunks_sent does not count it, while every
\* other audio part of the message is forwarded as usual; every audio part,
\* those after the odd one included, reaches the audio callback; the read loop
\* stays in its loop on an unchanged model socket; and bot_speaking and
\* user_speaking end as the flags of the message alone determine.
C31_OddChunkContained ==
    [][(hist'.op = "model" /\ \E i \in 1..Len(LastItems) : OddItem(LastItems[i]))
         => LET audio == SelectSeq(LastItems, IsAudioItem)
                good == SelectSeq(audio, LAMBDA item : ~OddItem(item))
                done == HasItem(LastItems, "turnComplete") \/ HasItem(LastItems, "interrupted")
            IN  /\ SubSeq(websocket'.sent, 1, Len(websocket.sent)) = websocket.sent
                /\ [i \in 1..Len(NewFrames) |-> NewFrames[i].payload]
                      = IF Streaming /\ websocket.state = "open"
                        THEN [i \in 1..Len(good) |-> ForwardOfPart(good[i][2])]
                        ELSE <<>>
                /\ smartflo_session'.audio_chunks_sent
                      = smartflo_session.audio_chunks_sent + Len(NewFrames)
                /\ Invocations(NewCalls, "audio_callback") = Len(audio)
                /\ pc'["t2"] = "recv" /\ ws' = ws
                /\ gemini_client'.connected = gemini_client.connected
                /\ gemini_client'.bot_speaking = ~done
                /\ gemini_client'.user_speaking
                      = IF HasItem(LastItems, "interrupted") THEN TRUE
                        ELSE IF gemini_client.bot_speaking THEN gemini_client.user_speaking
                        ELSE FALSE]_vars

\* while the session was streaming the model sent an odd chunk followed by a
\* good one in one message, and then an interruption: only the good chunk was
\* written, and the signals of the later message were delivered
C31_Witness ==
    /\ Streaming
    /\ Len(hist.model_in) = 2
    /\ Len(ModelAudioIn) = 2
    /\ Len(from_base64(ModelAudioIn[1][2])) % 2 = 1
    /\ TelephonyPayloads = <<ForwardOfPart(ModelAudioIn[2][2])>>
    /\ smartflo_session.audio_chunks_sent = 1
    /\ orch.audio_out_count = 2
    /\ hist.model_in[2] = <<<<"interrupted", <<>>>>>>
    /\ hist.calls[Len(hist.calls)] = <<"vad_callback", "interrupted">>

\* C32: once a call of stop() has returned, no step writes to the model socket
\* or to the telephony socket, and no step changes audio_in_count,
\* audio_out_count or audio_chunks_sent.
C32_QuietAfterStop ==
    [][StopReturned => /\ ws'.sent = ws.sent
                       /\ websocket'.sent = websocket.sent
                       /\ orch'.audio_in_count = orch.audio_in_count
                       /\ orch'.audio_out_count = orch.audio_out_count
                       /\ smartflo_session'.audio_chunks_sent
                             = smartflo_session.audio_chunks_sent]_vars

-----------------------------------------------------------------------------
(* The single-file bridge served by /smartflo/ws (src/server.py).  It has   *)
(* no session or orchestrator object: the handler accepts the telephony     *)
(* socket, connects a GeminiLiveConnection and gathers two forwarding       *)
(* coroutines.  websocket is the telephony socket, ws the model socket,     *)
(* gemini_client holds connected and whether websocket is set               *)
(* (GeminiLiveConnection), pc["endpoint"] is the handler, pc["t1"] is       *)
(* forward_smartflo_to_gemini and pc["t2"] forward_gemini_to_smartflo.      *)
(* Audio travels as raw bytes on the telephony side and as a hex string on  *)
(* the model side; a hex string is a sequence of digit values.              *)

\* bytes.hex() (server.py:127)
RECURSIVE hex(_)
hex(data) ==
    IF data = <<>> THEN <<>>
    ELSE <<Head(data) \div 16, Head(data) % 16>> \o hex(Tail(data))

\* bytes.fromhex() (server.py:224): ValueError on an odd number of digits or
\* on a character that is no hex digit
fromhex(digits) ==
    IF Len(digits) % 2 # 0 \/ \E i \in 1..Len(digits) : digits[i] \notin 0..15
    THEN Raised
    ELSE Ok([i \in 1..(Len(digits) \div 2) |-> digits[2 * i - 1] * 16 + digits[2 * i]])

HexPart(digits) == [inlineData |-> TRUE, mimeType |-> "audio/pcm", data |-> digits, text |-> ""]

\* what the telephony peer can send: binary frames (one of them empty) and a
\* text frame, for which receive_bytes raises KeyError (server.py:176)
WsFrames == {[binary |-> TRUE, data |-> <<>>], [binary |-> TRUE, data |-> <<1>>],
             [binary |-> TRUE, data |-> <<255, 16>>], [binary |-> FALSE, data |-> <<>>]}

WsModel ==
    {[GMsg EXCEPT !.json = FALSE], [GMsg EXCEPT !.setupComplete = TRUE],
     [GMsg EXCEPT !.serverContent = TRUE, !.modelTurn = TRUE,
                  !.parts = <<HexPart(hex(<<0, 16>>))>>],
     [GMsg EXCEPT !.serverContent = TRUE, !.modelTurn = TRUE,
                  !.parts = <<HexPart(<<1, 2, 3>>), HexPart(hex(<<7>>))>>]}

\* server.py:217-229: the parts in order; fromhex or send_bytes raising ends
\* the handling of the message (server.py:241-242)
RECURSIVE SendParts(_, _, _)
SendParts(sent, parts, open) ==
    IF parts = <<>> THEN sent
    ELSE IF ~Head(parts).inlineData THEN SendParts(sent, Tail(parts), open)
    ELSE IF ~fromhex(Head(parts).data).ok \/ ~open THEN sent
    ELSE SendParts(Append(sent, fromhex(Head(parts).data).data), Tail(parts), open)

\* server.py:287-295: accept, then the test of the API key; without a key the
\* handler closes the socket and returns (gemini_conn is None in the finally)
smartflo_websocket_endpoint ==
    /\ pc["endpoint"] = "accept"
    /\ \E key \in BOOLEAN :
         /\ websocket' = [websocket EXCEPT !.state = IF key THEN "open" ELSE "closed"]
         /\ pc' = [pc EXCEPT !["endpoint"] = IF key THEN "connect" ELSE "done"]
    /\ hist' = [hist EXCEPT !.op = "accept"]
    /\ UNCHANGED <<smartflo_session, gemini_client, ws, orch, cancel, stops>>

\* server.py:298-299 -> 57-76, 78-113: connect and the setup exchange; a
\* failure is raised to the handler, and connected is not reset
GeminiLiveConnection_connect ==
    /\ pc["endpoint"] = "connect"
    /\ \E outcome \in {"ok", "refused", "setup_failed"} :
         /\ ws' = CASE outcome = "ok" -> [state |-> "open", sent |-> <<SetupMessage>>]
                    [] outcome = "refused" -> ws
                    [] outcome = "setup_failed" ->
                          [state |-> "closed_error", sent |-> <<SetupMessage>>]
         /\ gemini_client' = IF outcome = "refused" THEN gemini_client
                             ELSE [gemini_client EXCEPT !.has_ws = TRUE, !.connected = TRUE]
         /\ pc' = IF outcome = "ok"
                  THEN [pc EXCEPT !["endpoint"] = "gather", !["t1"] = "recv", !["t2"] = "recv"]
                  ELSE [pc EXCEPT !["endpoint"] = "except"]
    /\ hist' = [hist EXCEPT !.op = "connect"]
    /\ UNCHANGED <<smartflo_session, websocket, orch, cancel, stops>>

\* server.py:174-185 -> 115-139: one frame read from the telephony socket
forward_smartflo_to_gemini ==
    /\ pc["t1"] = "recv"
    /\ websocket.state = "open"
    /\ \E frame \in WsFrames :
         LET forwards == frame.binary /\ frame.data # <<>>
             can_send == gemini_client.connected /\ gemini_client.has_ws /\ ws.state = "open"
         IN  /\ (forwards /\ can_send) => Len(ws.sent) <= MaxFwd
             /\ ws' = IF forwards /\ can_send
                      THEN [ws EXCEPT !.sent = Append(@, RealtimeInput(hex(frame.data)))]
                      ELSE ws
             /\ pc' = [pc EXCEPT !["t1"] = IF ~frame.binary \/ (forwards /\ ~can_send)
                                           THEN "raised" ELSE @]
    /\ hist' = [hist EXCEPT !.op = "telephony"]
    /\ UNCHANGED <<smartflo_session, websocket, gemini_client, orch, cancel, stops>>

\* server.py:176, 187-188: the telephony socket is disconnected, the coroutine
\* returns
forward_smartflo_disconnected ==
    /\ pc["t1"] = "recv"
    /\ websocket.state \in {"peer_closed", "closed"}
    /\ pc' = [pc EXCEPT !["t1"] = "done"]
    /\ hist' = [hist EXCEPT !.op = "telephony_closed"]
    /\ UNCHANGED <<smartflo_session, websocket, gemini_client, ws, orch, cancel, stops>>

\* server.py:204-242 -> 147-148: one message read from the model socket
forward_gemini_to_smartflo ==
    /\ pc["t2"] = "recv"
    /\ ws.state = "open"
    /\ \E message \in WsModel :
         /\ websocket.state = "open" => Len(websocket.sent) + NumAudio(message) <= MaxFwd
         /\ websocket' =
               IF message.json /\ message.serverContent /\ message.modelTurn
               THEN [websocket EXCEPT !.sent = SendParts(@, message.parts,
                                                          websocket.state = "open")]
               ELSE websocket
    /\ hist' = [hist EXCEPT !.op = "model"]
    /\ UNCHANGED <<smartflo_session, gemini_client, ws, orch, pc, cancel, stops>>

\* server.py:147-154, 204: the model socket is closed; the generator ends
\* (after an abnormal close it clears connected) and the coroutine returns
receive_messages_closed ==
    /\ pc["t2"] = "recv"
    /\ ws.state \in {"closed_ok", "closed_error"}
    /\ gemini_client' = [gemini_client EXCEPT !.connected =
                            IF ws.state = "closed_error" THEN FALSE ELSE @]
    /\ pc' = [pc EXCEPT !["t2"] = "done"]
    /\ hist' = [hist EXCEPT !.op = "model_closed"]
    /\ UNCHANGED <<smartflo_session, websocket, ws, orch, cancel, stops>>

\* server.py:302-305: gather returns when both coroutines have returned, and
\* raises as soon as one of them has raised
bridge_gather ==
    /\ pc["endpoint"] = "gather"
    /\ \/ /\ "raised" \in {pc["t1"], pc["t2"]}
          /\ pc' = [pc EXCEPT !["endpoint"] = "except"]
       \/ /\ pc["t1"] = "done" /\ pc["t2"] = "done"
          /\ pc' = [pc EXCEPT !["endpoint"] = "finally"]
    /\ hist' = [hist EXCEPT !.op = "gather"]
    /\ UNCHANGED <<smartflo_session, websocket, gemini_client, ws, orch, cancel, stops>>

\* server.py:309-314: the handler closes the telephony socket after an error
bridge_except ==
    /\ pc["endpoint"] = "except"
    /\ websocket' = [websocket EXCEPT !.state = IF @ = "open" THEN "closed" ELSE @]
    /\ pc' = [pc EXCEPT !["endpoint"] = "finally"]
    /\ hist' = [hist EXCEPT !.op = "except"]
    /\ UNCHANGED <<smartflo_session, gemini_client, ws, orch, cancel, stops>>

\* server.py:315-319 -> 156-161: the handler closes the model connection
bridge_finally ==
    /\ pc["endpoint"] = "finally"
    /\ ws' = IF gemini_client.has_ws /\ ws.state = "open"
             THEN [ws EXCEPT !.state = "closed_ok"] ELSE ws
    /\ gemini_client' = IF gemini_client.has_ws
                        THEN [gemini_client EXCEPT !.connected = FALSE] ELSE gemini_client
    /\ pc' = [pc EXCEPT !["endpoint"] = "done"]
    /\ hist' = [hist EXCEPT !.op = "finally"]
    /\ UNCHANGED <<smartflo_session, websocket, orch, cancel, stops>>

\* the caller hangs up
SmartfloPeerClose ==
    /\ websocket.state = "open"
    /\ websocket' = [websocket EXCEPT !.state = "peer_closed"]
    /\ hist' = [hist EXCEPT !.op = "telephony_peer_close"]
    /\ UNCHANGED <<smartflo_session, gemini_client, ws, orch, pc, cancel, stops>>

\* the model peer closes its side, with or without a closing handshake
GeminiPeerClose ==
    /\ ws.state = "open"
    /\ \E how \in {"closed_ok", "closed_error"} : ws' = [ws EXCEPT !.state = how]
    /\ hist' = [hist EXCEPT !.op = "model_peer_close"]
    /\ UNCHANGED <<smartflo_session, websocket, gemini_client, orch, pc, cancel, stops>>

WsNext ==
    \/ smartflo_websocket_endpoint
    \/ GeminiLiveConnection_connect
    \/ forward_smartflo_to_gemini
    \/ forward_smartflo_disconnected
    \/ forward_gemini_to_smartflo
    \/ receive_messages_closed
    \/ bridge_gather
    \/ bridge_except
    \/ bridge_finally
    \/ SmartfloPeerClose
    \/ GeminiPeerClose

WsSpec == Init /\ [][WsNext]_vars

\* asyncio runs every coroutine that is ready, so each step of the handler and
\* of the two coroutines is weakly fair; the caller's side is taken to keep
\* sending frames for as long as its socket is open.  Nothing obliges either
\* peer to close its connection, or the model to send.
WsFairSpec ==
    /\ WsSpec
    /\ WF_vars(smartflo_websocket_endpoint)
    /\ WF_vars(GeminiLiveConnection_connect)
    /\ WF_vars(forward_smartflo_to_gemini)
    /\ WF_vars(forward_smartflo_disconnected)
    /\ WF_vars(receive_messages_closed)
    /\ WF_vars(bridge_gather)
    /\ WF_vars(bridge_except)
    /\ WF_vars(bridge_finally)

\* the session at /smartflo/ws has ended and the model connection is closed
WsEnded == pc["endpoint"] = "done" /\ ws.state # "open"

\* C33: in the bridge at /smartflo/ws, once the telephony socket is
\* disconnected the model connection is eventually closed and the handler
\* finishes, whether or not the model peer closes its side; and once the
\* model connection is closed the handler eventually finishes, whether or not
\* the telephony peer disconnects.
C33_EitherEndEndsSession ==
    /\ (websocket.state = "peer_closed") ~> WsEnded
    /\ (ws.state \in {"closed_ok", "closed_error"}) ~> WsEnded

====
